---- MODULE Spec2Model ----
(***************************************************************************)
(* Model of the terminal emulator core: the byte-stream parser             *)
(* (handleOutput), the escape interpreter (handleEscape and the escape*    *)
(* handlers) and the grid, as one record `term' transformed by operators   *)
(* that follow the Go functions statement by statement.                    *)
(***************************************************************************)
EXTENDS Integers, Sequences, FiniteSets, TLC

VARIABLES
    term,      \* the Terminal
    leftOver,  \* run's leftOver between two reads
    pending,   \* bytes the pty holds that run has not read yet
    fed,       \* bytes run has read so far (byte-level specification)
    prev,      \* the cursor, margins and writer before the last read
    lastIn,    \* what the last read held
    steps      \* number of reads so far

vars == <<term, leftOver, pending, fed, prev, lastIn, steps>>

(* ------------------------------ bounds --------------------------------- *)
MaxRows == 2
MaxCols == 3
MaxParam == 2
MaxSteps == 3
MaxChunkSteps == 3
MaxStreamTokens == 2

(* --------------------------- program constants ------------------------- *)
asciiBell == 7
asciiBackspace == 8
asciiEscape == 27
noEscape == 5000
tabWidth == 8
RuneError == 65533

\* literal characters used by the parser and the handlers
Ch == [LF |-> 10, VT |-> 11, FF |-> 12, CR |-> 13, HT |-> 9, SO |-> 14, SI |-> 15,
       SP |-> 32, zero |-> 48, nine |-> 57, semi |-> 59, question |-> 63,
       gt |-> 62, at |-> 64, tilde |-> 126, lbracket |-> 91, rbracket |-> 93,
       backslash |-> 92, lparen |-> 40, rparen |-> 41, underscore |-> 95,
       plus |-> 43, minus |-> 45, colon |-> 58, eq |-> 61]

(* ------------------------------ sequences ------------------------------ *)
Min(a, b) == IF a < b THEN a ELSE b

Repeat(x, n) == [i \in 1..n |-> x]

(* ------------------------- strconv.Atoi / Itoa ------------------------- *)
IsDigit(c) == c >= 48 /\ c <= 57

AllDigits(s) == \A i \in 1..Len(s) : IsDigit(s[i])

RECURSIVE DigitsValue(_)
DigitsValue(s) ==
    IF Len(s) = 0 THEN 0
    ELSE 10 * DigitsValue(SubSeq(s, 1, Len(s) - 1)) + (s[Len(s)] - 48)

\* strconv.Atoi: optional sign, then decimal digits; 0 with an error otherwise
AtoiOk(s) ==
    LET body == IF Len(s) > 0 /\ s[1] \in {43, 45} THEN Tail(s) ELSE s
    IN  Len(body) > 0 /\ AllDigits(body)

Atoi(s) ==
    IF ~AtoiOk(s) THEN 0
    ELSE IF s[1] = 45 THEN 0 - DigitsValue(Tail(s))
    ELSE IF s[1] = 43 THEN DigitsValue(Tail(s))
    ELSE DigitsValue(s)

RECURSIVE NatDigits(_)
NatDigits(n) ==
    IF n < 10 THEN <<48 + n>>
    ELSE Append(NatDigits(n \div 10), 48 + (n % 10))

\* strconv.Itoa
Itoa(n) == IF n < 0 THEN <<45>> \o NatDigits(0 - n) ELSE NatDigits(n)

(* ----------------------------- strings --------------------------------- *)
\* strings.Split(s, sep) for a one-character separator
RECURSIVE Split(_, _)
Split(s, sep) ==
    IF \A i \in 1..Len(s) : s[i] # sep THEN <<s>>
    ELSE LET k == CHOOSE i \in 1..Len(s) :
                     s[i] = sep /\ \A j \in 1..(i - 1) : s[j] # sep
         IN  <<SubSeq(s, 1, k - 1)>> \o Split(SubSeq(s, k + 1, Len(s)), sep)

Contains(s, c) == \E i \in 1..Len(s) : s[i] = c

HasPrefix(s, p) == Len(s) >= Len(p) /\ SubSeq(s, 1, Len(p)) = p

\* number of bytes of the UTF-8 encoding of a rune, as string(r) produces it
RuneLen(r) ==
    IF r < 128 THEN 1 ELSE IF r < 2048 THEN 2 ELSE IF r < 65536 THEN 3 ELSE 4

RECURSIVE ByteLen(_)
ByteLen(s) == IF Len(s) = 0 THEN 0 ELSE RuneLen(Head(s)) + ByteLen(Tail(s))

\* trimLeftZeros: drop the leading runes that are not greater than '0'
RECURSIVE trimLeftZeros(_)
trimLeftZeros(s) ==
    IF Len(s) = 0 THEN s
    ELSE IF Head(s) > 48 THEN s
    ELSE trimLeftZeros(Tail(s))

(* --------------------------- utf8.DecodeRune --------------------------- *)
IsCont(b, lo, hi) == b >= lo /\ b <= hi

\* utf8.DecodeRune: the first rune of buf and its width in bytes;
\* (RuneError, 0) for an empty buffer, (RuneError, 1) for an invalid or
\* incomplete encoding
DecodeRune(buf) ==
    LET n == Len(buf)
        bad == [r |-> RuneError, size |-> 1]
    IN  IF n = 0 THEN [r |-> RuneError, size |-> 0]
        ELSE LET b0 == buf[1] IN
        IF b0 < 128 THEN [r |-> b0, size |-> 1]
        ELSE IF b0 >= 194 /\ b0 <= 223 THEN
            IF n >= 2 /\ IsCont(buf[2], 128, 191)
            THEN [r |-> (b0 % 32) * 64 + (buf[2] % 64), size |-> 2]
            ELSE bad
        ELSE IF b0 >= 224 /\ b0 <= 239 THEN
            LET lo == IF b0 = 224 THEN 160 ELSE 128
                hi == IF b0 = 237 THEN 159 ELSE 191
            IN  IF n >= 3 /\ IsCont(buf[2], lo, hi) /\ IsCont(buf[3], 128, 191)
                THEN [r |-> (b0 % 16) * 4096 + (buf[2] % 64) * 64 + (buf[3] % 64),
                      size |-> 3]
                ELSE bad
        ELSE IF b0 >= 240 /\ b0 <= 244 THEN
            LET lo == IF b0 = 240 THEN 144 ELSE 128
                hi == IF b0 = 244 THEN 143 ELSE 191
            IN  IF n >= 4 /\ IsCont(buf[2], lo, hi) /\ IsCont(buf[3], 128, 191)
                        /\ IsCont(buf[4], 128, 191)
                THEN [r |-> (b0 % 8) * 262144 + (buf[2] % 64) * 4096
                              + (buf[3] % 64) * 64 + (buf[4] % 64),
                      size |-> 4]
                ELSE bad
        ELSE bad

(* ------------------------------- the grid ------------------------------ *)
NilColor == [k |-> "nil", v |-> 0]

\* a nil TextGridStyle (the zero value of a cell made by make([]TextGridCell, n))
NilStyle == [kind |-> "nil", FG |-> NilColor, BG |-> NilColor,
             blink |-> FALSE, bold |-> FALSE, ul |-> FALSE]

\* widget2.NewTermTextGridStyle(t.currentFG, t.currentBG, highlightBitMask,
\*                              t.blinking, t.bold, t.underlined)
NewTermTextGridStyle(t) ==
    [kind |-> "term", FG |-> t.currentFG, BG |-> t.currentBG,
     blink |-> t.blinking, bold |-> t.bold, ul |-> t.underlined]

\* &widget.CustomTextGridStyle{FGColor: t.currentFG, BGColor: t.currentBG}
CustomTextGridStyle(t) ==
    [kind |-> "custom", FG |-> t.currentFG, BG |-> t.currentBG,
     blink |-> FALSE, bold |-> FALSE, ul |-> FALSE]

Cell(r, style) == [Rune |-> r, Style |-> style]

ZeroCell == Cell(0, NilStyle)

\* a row is its cell slice: the cells, and the cells of the backing array
\* beyond the length (a slice expression may reach into them, and panics
\* only when a bound exceeds the capacity)
MkRow(cells) == [Cells |-> cells, spare |-> <<>>]

Cap(row) == Len(row.Cells) + Len(row.spare)

\* widget.TextGridRow{}: nil cells
EmptyRow == MkRow(<<>>)

\* make([]widget.TextGridCell, n): n zero cells
MakeCells(n) == Repeat(ZeroCell, n)

\* runtime.growslice: the capacity of a slice of capacity old grown to hold
\* `needed' elements (the size-class rounding changes nothing below 11 cells)
GrowCap(old, needed) ==
    IF needed <= old THEN old
    ELSE IF needed > 2 * old THEN needed ELSE 2 * old

\* append(row.Cells, cells...): in place while the capacity allows, else
\* into a fresh zeroed array
AppendCells(row, cells) ==
    LET n == Len(cells)
        needed == Len(row.Cells) + n
    IN  IF needed <= Cap(row)
        THEN [Cells |-> row.Cells \o cells,
              spare |-> SubSeq(row.spare, n + 1, Len(row.spare))]
        ELSE [Cells |-> row.Cells \o cells,
              spare |-> MakeCells(GrowCap(Cap(row), needed) - needed)]

\* row.Cells[:k] for 0 <= k <= cap(row.Cells), on the same backing array
SliceTo(row, k) ==
    LET all == row.Cells \o row.spare
    IN  [Cells |-> SubSeq(all, 1, k), spare |-> SubSeq(all, k + 1, Len(all))]

\* TextGrid.Row: the row at index i, an empty row when i is out of range
Row(t, i) ==
    IF i < 0 \/ i >= Len(t.content) THEN EmptyRow ELSE t.content[i + 1]

\* the rows extended with empty rows up to length n
PadRows(rows, n) ==
    IF Len(rows) >= n THEN rows ELSE rows \o Repeat(EmptyRow, n - Len(rows))

\* TextGrid.SetRow: rows grow on demand; a negative index is ignored
SetRow(t, i, row) ==
    IF i < 0 THEN t
    ELSE [t EXCEPT !.content = [PadRows(t.content, i + 1) EXCEPT ![i + 1] = row]]

\* a Go run-time panic: the reader goroutine dies and takes the program down
Panic(t) == [t EXCEPT !.panicked = TRUE]

(* ----------------------------- the terminal ---------------------------- *)
GroundState == [code |-> <<>>, esc |-> noEscape, osc |-> FALSE, vt100 |-> 0,
                apc |-> FALSE, dcs |-> FALSE, printing |-> FALSE,
                dcsEscPending |-> FALSE, csi |-> FALSE]

\* New(), CreateRenderer() and the first Resize to rows x cols
NewTerminal(rows, cols) ==
    [Rows |-> rows, Columns |-> cols, Title |-> <<>>,
     content |-> <<>>,
     cursorRow |-> 0, cursorCol |-> 0,
     savedRow |-> 0, savedCol |-> 0,
     scrollTop |-> 0, scrollBottom |-> rows - 1,
     currentFG |-> NilColor, currentBG |-> NilColor,
     backgroundColorOverride |-> NilColor,
     bold |-> FALSE, blinking |-> FALSE, underlined |-> FALSE,
     cursorHidden |-> FALSE, bufferMode |-> FALSE,
     applicationCursorKeys |-> FALSE,
     mouse |-> "off", mouseSGR |-> FALSE,
     g0Charset |-> "ANSII", g1Charset |-> "ANSII", useG1CharSet |-> FALSE,
     newLineMode |-> FALSE, bracketedPasteMode |-> FALSE,
     wrapAround |-> TRUE, wrapPending |-> FALSE, originMode |-> FALSE,
     hasSavedRows |-> FALSE, savedRows |-> <<>>,
     savedCursorRow |-> 0, savedCursorCol |-> 0,
     state |-> GroundState,
     printData |-> <<>>, printDataSet |-> FALSE, printed |-> <<>>,
     written |-> <<>>,
     bell |-> FALSE,
     directory |-> <<>>,
     listeners |-> <<>>, fixedPTY |-> FALSE,
     cleaningUp |-> FALSE, contentNil |-> FALSE, cleanupTask |-> "idle",
     readerTask |-> [pc |-> "top", buf |-> <<>>],
     resizeTask |-> [pc |-> "idle", rows |-> 0, cols |-> 0, oldRows |-> 0,
                     sameGrid |-> FALSE],
     oscHandlers |-> {}, oscCalls |-> <<>>,
     apcHandlers |-> {}, apcRange |-> <<>>, apcCalls |-> <<>>,
     panicked |-> FALSE, hung |-> FALSE]

\* moveCursor: clamp into the grid and clear the pending wrap
moveCursor(t, row, col) ==
    IF t.Columns = 0 \/ t.Rows = 0 THEN t
    ELSE LET c == IF col < 0 THEN 0
                  ELSE IF col >= t.Columns THEN t.Columns - 1 ELSE col
             r == IF row < 0 THEN 0
                  ELSE IF row >= t.Rows THEN t.Rows - 1 ELSE row
         IN  [t EXCEPT !.wrapPending = FALSE, !.cursorCol = c, !.cursorRow = r]
(* ------------------------------- output.go ----------------------------- *)
\* scrollUp: shift the rows of the region down by one line, blank the top
scrollUp(t) ==
    LET rows == PadRows(t.content, t.scrollBottom + 1)
        top == t.scrollTop
        bot == t.scrollBottom
    IN  IF top < 0 \/ top >= Len(rows) THEN Panic(t)
        ELSE [t EXCEPT !.content =
                [i \in 1..Len(rows) |->
                    IF i - 1 = top THEN EmptyRow
                    ELSE IF i - 1 > top /\ i - 1 <= bot THEN rows[i - 1]
                    ELSE rows[i]]]

\* scrollDown: shift the rows of the region up by one line, blank the bottom
scrollDown(t) ==
    LET rows == PadRows(t.content, t.scrollBottom + 1)
        top == t.scrollTop
        bot == t.scrollBottom
    IN  IF bot < 0 \/ (top < bot /\ top < 0) THEN Panic(t)
        ELSE [t EXCEPT !.content =
                [i \in 1..Len(rows) |->
                    IF i - 1 = bot THEN EmptyRow
                    ELSE IF i - 1 >= top /\ i - 1 < bot THEN rows[i + 1]
                    ELSE rows[i]]]

handleOutputLineFeed(t) ==
    IF t.cursorRow = t.scrollBottom THEN
        LET t1 == scrollDown(t)
        IN  IF t1.panicked THEN t1
            ELSE IF t1.newLineMode THEN moveCursor(t1, t1.cursorRow, 0)
            ELSE t1
    ELSE IF t.newLineMode THEN moveCursor(t, t.cursorRow + 1, 0)
    ELSE moveCursor(t, t.cursorRow + 1, t.cursorCol)

\* the cells of a row appended to, one cell at a time, until index col exists
RECURSIVE PadCells(_, _, _)
PadCells(row, col, cell) ==
    IF Len(row.Cells) - 1 >= col THEN row
    ELSE PadCells(AppendCells(row, <<cell>>), col, cell)

\* the head of handleOutputChar: perform the wrap the previous character
\* left pending
DeferredWrap(t) ==
    IF ~t.wrapPending THEN t
    ELSE IF t.wrapAround
    THEN handleOutputLineFeed([t EXCEPT !.wrapPending = FALSE, !.cursorCol = 0])
    ELSE IF t.Columns > 0
    THEN [t EXCEPT !.wrapPending = FALSE, !.cursorCol = t.Columns - 1]
    ELSE [t EXCEPT !.wrapPending = FALSE]

\* Cells[col] = cell, behind the bounds check of handleOutputChar
PlaceCell(row, col, cell) ==
    IF col >= 0 /\ col < Len(row.Cells) THEN [row EXCEPT !.Cells[col + 1] = cell]
    ELSE row

\* the row of the cursor padded with blanks up to the cursor, then the rune
PlaceRune(t, r, cellStyle) ==
    [t EXCEPT !.content[t.cursorRow + 1] =
        PlaceCell(PadCells(@, t.cursorCol, Cell(Ch.SP, cellStyle)),
                  t.cursorCol, Cell(r, cellStyle))]

\* the tail of handleOutputChar: advance the cursor, or defer the wrap
AdvanceCursor(t) ==
    IF t.cursorCol = (IF t.Columns = 0 THEN 0 - 1 ELSE t.Columns - 1)
    THEN IF t.wrapAround
         THEN IF t.Columns > 0
              THEN [t EXCEPT !.wrapPending = TRUE, !.cursorCol = t.Columns]
              ELSE [t EXCEPT !.wrapPending = TRUE]
         ELSE t
    ELSE [t EXCEPT !.cursorCol = t.cursorCol + 1]

\* handleOutputChar after the deferred wrap and the rows grown to the cursor
WriteRune(t, r) ==
    IF t.panicked THEN t
    ELSE IF t.cursorRow < 0 \/ t.cursorRow >= Len(t.content) THEN t
    ELSE AdvanceCursor(PlaceRune(t, r, NewTermTextGridStyle(t)))

\* for len(t.content.Rows)-1 < t.cursorRow { append an empty row }
GrowRows(t) ==
    IF t.panicked THEN t
    ELSE [t EXCEPT !.content = PadRows(t.content, t.cursorRow + 1)]

handleOutputChar(t, r) == WriteRune(GrowRows(DeferredWrap(t)), r)

handleOutputBackspace(t) ==
    IF Len(Row(t, t.cursorRow).Cells) = 0 THEN t
    ELSE moveCursor(t, t.cursorRow, t.cursorCol - 1)

handleOutputBell(t) == [t EXCEPT !.bell = TRUE]

handleOutputCarriageReturn(t) == moveCursor(t, t.cursorRow, 0)

\* an upper bound on the iterations of a tab loop that ends: at most one
\* deferred wrap, then one column per iteration up to the last column
TabFuel(t) == 2 * t.Columns + tabWidth + 2

\* the loop of handleOutputTab: for t.cursorCol < end { t.handleOutputChar(' ') };
\* a loop that is still running when the fuel is spent never ends
RECURSIVE TabLoop(_, _, _)
TabLoop(t, end, fuel) ==
    IF t.panicked THEN t
    ELSE IF ~(t.cursorCol < end) THEN t
    ELSE IF fuel = 0 THEN [t EXCEPT !.hung = TRUE]
    ELSE TabLoop(handleOutputChar(t, Ch.SP), end, fuel - 1)

handleOutputTab(t) ==
    LET end == t.cursorCol - (t.cursorCol % tabWidth) + tabWidth
    IN  TabLoop(t, end, TabFuel(t))

handleShiftOut(t) == [t EXCEPT !.useG1CharSet = TRUE]

handleShiftIn(t) == [t EXCEPT !.useG1CharSet = FALSE]
(* ------------------------------- escape.go ----------------------------- *)
\* a full-width run of blank cells in the current SGR style
BlankCells(t, n) == Repeat(Cell(Ch.SP, NewTermTextGridStyle(t)), n)

RECURSIVE SetBlankRows(_, _, _)
\* for i := from; i < to; i++ { t.content.SetRow(i, full-width blank row) }
SetBlankRows(t, from, to) ==
    IF from >= to THEN t
    ELSE SetBlankRows(SetRow(t, from, MkRow(BlankCells(t, t.Columns))), from + 1, to)

clearScreen(t) == moveCursor(SetBlankRows(t, 0, t.Rows), 0, 0)

clearScreenFromCursor(t) ==
    LET row == Row(t, t.cursorRow)
        from == IF t.cursorCol > Len(row.Cells) THEN Len(row.Cells) ELSE t.cursorCol
        width == t.Columns
        left == IF from > 0 THEN SubSeq(row.Cells, 1, from) ELSE <<>>
        rightLen == IF width > from THEN width - from ELSE 0
        cells == AppendCells(AppendCells(EmptyRow, left), BlankCells(t, rightLen))
    IN  SetBlankRows(SetRow(t, t.cursorRow, cells), t.cursorRow + 1, t.Rows)

clearScreenToCursor(t) ==
    LET row == Row(t, t.cursorRow)
        width == t.Columns
        right == IF t.cursorCol < Len(row.Cells)
                 THEN SubSeq(row.Cells, t.cursorCol + 1, Len(row.Cells)) ELSE <<>>
        leftBlanks == IF t.cursorCol > width THEN width ELSE t.cursorCol
        \* make([]widget.TextGridCell, 0, width)
        empty == [Cells |-> <<>>, spare |-> MakeCells(width)]
        c1 == AppendCells(AppendCells(empty, BlankCells(t, leftBlanks)), right)
        combined == IF Len(c1.Cells) < width
                    THEN AppendCells(c1, BlankCells(t, width - Len(c1.Cells)))
                    ELSE c1
    IN  SetBlankRows(SetRow(t, t.cursorRow, combined), 0, t.cursorRow)

handleVT100(t, code) ==
    IF code = <<Ch.lparen, 65>> THEN [t EXCEPT !.g0Charset = "Alternate"]
    ELSE IF code = <<Ch.rparen, 65>> THEN [t EXCEPT !.g1Charset = "Alternate"]
    ELSE IF code = <<Ch.lparen, 66>> THEN [t EXCEPT !.g0Charset = "ANSII"]
    ELSE IF code = <<Ch.rparen, 66>> THEN [t EXCEPT !.g1Charset = "ANSII"]
    ELSE IF code = <<Ch.lparen, 48>> THEN [t EXCEPT !.g0Charset = "DECSpecialGraphics"]
    ELSE IF code = <<Ch.rparen, 48>> THEN [t EXCEPT !.g1Charset = "DECSpecialGraphics"]
    ELSE t

\* a reset that clears the screen before it resets the attributes: the blank
\* cells take the colours and the bold, blink and underline of before
resetTerminalClearingFirst(t) ==
    LET t0 == clearScreen(t)
        t1 == [t0 EXCEPT !.wrapAround = TRUE, !.wrapPending = FALSE,
                         !.newLineMode = FALSE, !.cursorHidden = FALSE,
                         !.applicationCursorKeys = FALSE, !.mouse = "off",
                         !.currentBG = NilColor, !.currentFG = NilColor,
                         !.bold = FALSE, !.blinking = FALSE, !.underlined = FALSE,
                         !.g0Charset = "ANSII", !.g1Charset = "ANSII",
                         !.useG1CharSet = FALSE,
                         !.scrollTop = 0,
                         !.scrollBottom = IF t.Rows > 0 THEN t.Rows - 1
                                          ELSE t.scrollBottom,
                         !.hasSavedRows = FALSE, !.savedRows = <<>>,
                         !.bufferMode = FALSE]
    IN  moveCursor(t1, 0, 0)

\* resetTerminal: RIS (ESC c)
resetTerminal(t) ==
    LET t1 == [t EXCEPT !.wrapAround = TRUE, !.wrapPending = FALSE,
                        !.newLineMode = FALSE, !.cursorHidden = FALSE,
                        !.applicationCursorKeys = FALSE, !.mouse = "off",
                        !.currentBG = NilColor, !.currentFG = NilColor,
                        !.bold = FALSE, !.blinking = FALSE, !.underlined = FALSE,
                        !.g0Charset = "ANSII", !.g1Charset = "ANSII",
                        !.useG1CharSet = FALSE,
                        !.scrollTop = 0,
                        !.scrollBottom = IF t.Rows > 0 THEN t.Rows - 1
                                         ELSE t.scrollBottom,
                        !.hasSavedRows = FALSE, !.savedRows = <<>>,
                        !.bufferMode = FALSE]
    IN  clearScreen(moveCursor(t1, 0, 0))

\* the count parameter of a CSI sequence: strconv.Atoi, 0 or unparsable is 1
Count(msg) == IF Atoi(msg) = 0 THEN 1 ELSE Atoi(msg)

escapeDeleteChars(t, msg) ==
    LET i == Count(msg)
        right == t.cursorCol + i
        row == Row(t, t.cursorRow)
        len == Len(row.Cells)
    IN  IF t.cursorCol > Cap(row) THEN Panic(t)
        ELSE LET cells == SliceTo(row, t.cursorCol)
                 tail == IF right < len THEN SubSeq(row.Cells, right + 1, len) ELSE <<>>
             IN  SetRow(t, t.cursorRow, AppendCells(cells, tail))

escapeEraseInLine(t, msg) ==
    LET mode == Atoi(msg)
        row == Row(t, t.cursorRow)
        len == Len(row.Cells)
    IN  IF mode \notin {0, 1, 2} \/ t.cursorCol >= len THEN t
        ELSE IF mode = 0 THEN SetRow(t, t.cursorRow, SliceTo(row, t.cursorCol))
        ELSE IF mode = 1 THEN
            SetRow(t, t.cursorRow,
                   AppendCells(MkRow(MakeCells(t.cursorCol)),
                               SubSeq(row.Cells, t.cursorCol + 1, len)))
        ELSE SetRow(t, t.cursorRow, MkRow(MakeCells(len)))

escapeEraseInScreen(t, msg) ==
    LET mode == Atoi(msg)
    IN  IF mode = 0 THEN clearScreenFromCursor(t)
        ELSE IF mode = 1 THEN clearScreenToCursor(t)
        ELSE IF mode = 2 THEN clearScreen(t)
        ELSE IF mode = 3 THEN
            moveCursor([t EXCEPT !.content = <<>>, !.scrollTop = 0,
                                 !.scrollBottom = IF t.Rows > 0 THEN t.Rows - 1 ELSE 0],
                       0, 0)
        ELSE t

escapeInsertChars(t, msg) ==
    LET chars == Count(msg)
        newCells == Repeat(Cell(Ch.SP, CustomTextGridStyle(t)), chars)
    IN  IF t.cursorRow < 0 \/ t.cursorRow >= Len(t.content) THEN Panic(t)
        ELSE LET row == t.content[t.cursorRow + 1]
                 len == Len(row.Cells)
             IN  IF t.cursorCol > len THEN Panic(t)
                 ELSE [t EXCEPT !.content[t.cursorRow + 1] =
                          AppendCells(SliceTo(row, t.cursorCol),
                                      newCells \o SubSeq(row.Cells, t.cursorCol + 1, len))]

RECURSIVE InsertLinesShift(_, _, _)
\* for ; i > t.cursorRow-rows+1; i-- { t.content.SetRow(i, t.content.Row(i-rows)) }
\* for ; i >= t.cursorRow; i-- { t.content.SetRow(i, widget.TextGridRow{}) }
InsertLinesShift(t, i, rows) ==
    IF i > t.cursorRow - rows + 1
    THEN InsertLinesShift(SetRow(t, i, Row(t, i - rows)), i - 1, rows)
    ELSE IF i >= t.cursorRow
    THEN InsertLinesShift(SetRow(t, i, EmptyRow), i - 1, rows)
    ELSE t

escapeInsertLines(t, msg) == InsertLinesShift(t, t.scrollBottom, Count(msg))

escapeMoveCursorUp(t, msg) == moveCursor(t, t.cursorRow - Count(msg), t.cursorCol)

escapeMoveCursorDown(t, msg) == moveCursor(t, t.cursorRow + Count(msg), t.cursorCol)

escapeMoveCursorRight(t, msg) == moveCursor(t, t.cursorRow, t.cursorCol + Count(msg))

escapeMoveCursorLeft(t, msg) == moveCursor(t, t.cursorRow, t.cursorCol - Count(msg))

escapeMoveCursorRow(t, msg) ==
    LET row == Atoi(msg)
    IN  IF t.originMode THEN moveCursor(t, t.scrollTop + (row - 1), t.cursorCol)
        ELSE moveCursor(t, row - 1, t.cursorCol)

escapeMoveCursorCol(t, msg) == moveCursor(t, t.cursorRow, Atoi(msg) - 1)
\* a deep copy of the rows: fresh backing arrays of exactly the cells
CopyRows(rows) == [i \in 1..Len(rows) |-> MkRow(rows[i].Cells)]

\* one mode of escapePrivateMode (the body of its switch)
PrivateModeOne(t, mode, enable) ==
    IF mode = Itoa(1) THEN [t EXCEPT !.applicationCursorKeys = enable]
    ELSE IF mode = Itoa(7) THEN [t EXCEPT !.wrapAround = enable]
    ELSE IF mode = Itoa(6) THEN [t EXCEPT !.originMode = enable]
    ELSE IF mode = Itoa(20) THEN [t EXCEPT !.newLineMode = enable]
    ELSE IF mode = Itoa(25) THEN [t EXCEPT !.cursorHidden = ~enable]
    ELSE IF mode = Itoa(1048) THEN
        IF enable
        THEN [t EXCEPT !.savedCursorRow = t.cursorRow, !.savedCursorCol = t.cursorCol]
        ELSE moveCursor(t, t.savedCursorRow, t.savedCursorCol)
    ELSE IF mode = Itoa(9) THEN [t EXCEPT !.mouse = IF enable THEN "X10" ELSE "off"]
    ELSE IF mode = Itoa(1000) THEN [t EXCEPT !.mouse = IF enable THEN "V200" ELSE "off"]
    ELSE IF mode = Itoa(1006) THEN [t EXCEPT !.mouseSGR = enable]
    ELSE IF mode = Itoa(1049) \/ mode = Itoa(47) THEN
        LET t1 == IF mode = Itoa(1049) /\ enable
                  THEN [t EXCEPT !.savedCursorRow = t.cursorRow,
                                 !.savedCursorCol = t.cursorCol]
                  ELSE t
        IN  IF enable THEN
                LET t2 == IF ~t1.hasSavedRows
                          THEN [t1 EXCEPT !.hasSavedRows = TRUE,
                                          !.savedRows = CopyRows(t1.content),
                                          !.savedCursorRow = t1.cursorRow,
                                          !.savedCursorCol = t1.cursorCol]
                          ELSE t1
                IN  moveCursor([t2 EXCEPT !.content = <<>>], 0, 0)
            ELSE IF t1.hasSavedRows THEN
                [moveCursor([t1 EXCEPT !.content = CopyRows(t1.savedRows)],
                            t1.savedCursorRow, t1.savedCursorCol)
                    EXCEPT !.hasSavedRows = FALSE, !.savedRows = <<>>]
            ELSE t1
    ELSE IF mode = Itoa(2004) THEN [t EXCEPT !.bracketedPasteMode = enable]
    ELSE t

RECURSIVE PrivateModes(_, _, _)
PrivateModes(t, modes, enable) ==
    IF Len(modes) = 0 THEN t
    ELSE PrivateModes(PrivateModeOne(t, Head(modes), enable), Tail(modes), enable)

escapePrivateMode(t, msg, enable) == PrivateModes(t, Split(msg, Ch.semi), enable)

RECURSIVE Modes(_, _, _)
Modes(t, modes, enable) ==
    IF Len(modes) = 0 THEN t
    ELSE Modes(IF Head(modes) = Itoa(20) THEN [t EXCEPT !.newLineMode = enable] ELSE t,
               Tail(modes), enable)

\* escapeMode: SM/RM without the '?' prefix
escapeMode(t, msg, enable) == Modes(t, Split(msg, Ch.semi), enable)

escapePrivateModeOff(t, msg) ==
    IF HasPrefix(msg, <<Ch.question>>) THEN escapePrivateMode(t, Tail(msg), FALSE)
    ELSE escapeMode(t, msg, FALSE)

escapePrivateModeOn(t, msg) ==
    IF HasPrefix(msg, <<Ch.question>>) THEN escapePrivateMode(t, Tail(msg), TRUE)
    ELSE escapeMode(t, msg, TRUE)

escapeMoveCursor(t, msg) ==
    IF ~Contains(msg, Ch.semi) THEN moveCursor(t, 0, 0)
    ELSE LET parts == Split(msg, Ch.semi)
             row == Atoi(parts[1])
             col == IF Len(parts) = 2 THEN Atoi(parts[2]) ELSE 1
         IN  IF t.originMode THEN moveCursor(t, t.scrollTop + (row - 1), col - 1)
             ELSE moveCursor(t, row - 1, col - 1)

escapeRestoreCursor(t, s) ==
    IF s # <<>> THEN t ELSE moveCursor(t, t.savedRow, t.savedCol)

escapeSaveCursor(t, msg) ==
    [t EXCEPT !.savedRow = t.cursorRow, !.savedCol = t.cursorCol]

escapeSetScrollArea(t, msg) ==
    LET parts == Split(msg, Ch.semi)
        two == Len(parts) = 2
        start == IF two /\ parts[1] # <<>> THEN Atoi(parts[1]) - 1 ELSE 0
        end == IF two /\ parts[2] # <<>> THEN Atoi(parts[2]) - 1 ELSE t.Rows - 1
    IN  [t EXCEPT !.scrollTop = start, !.scrollBottom = end]

RECURSIVE ShiftUp(_, _, _)
\* for i := from; i <= t.scrollBottom-lines; i++ { SetRow(i, Row(i+lines)) }
ShiftUp(t, i, lines) ==
    IF i > t.scrollBottom - lines THEN t
    ELSE ShiftUp(SetRow(t, i, Row(t, i + lines)), i + 1, lines)

RECURSIVE ClearRows(_, _, _)
\* for i := from; i < to; i++ { SetRow(i, widget.TextGridRow{}) }
ClearRows(t, from, to) ==
    IF from >= to THEN t ELSE ClearRows(SetRow(t, from, EmptyRow), from + 1, to)

escapeScrollUp(t, msg) ==
    LET lines == Count(msg)
        n0 == IF t.cursorRow - lines < 0 THEN 0 ELSE t.cursorRow - lines
        newCursorRow == IF n0 < t.scrollTop THEN t.scrollTop ELSE n0
        t1 == moveCursor(t, newCursorRow, t.cursorCol)
        t2 == ShiftUp(t1, t1.scrollTop, lines)
    IN  ClearRows(t2, t2.scrollBottom - lines + 1, t2.scrollBottom + 1)

RECURSIVE ShiftDown(_, _, _)
\* for i := from; i >= t.scrollTop+lines; i-- { SetRow(i, Row(i-lines)) }
ShiftDown(t, i, lines) ==
    IF i < t.scrollTop + lines THEN t
    ELSE ShiftDown(SetRow(t, i, Row(t, i - lines)), i - 1, lines)

escapeScrollDown(t, msg) ==
    LET lines == Count(msg)
        t1 == ShiftDown(t, t.scrollBottom, lines)
    IN  ClearRows(t1, t1.scrollTop, Min(t1.scrollTop + lines, t1.scrollBottom + 1))

\* t.in.Write(b): the bytes reach the writer in order
Write(t, b) == [t EXCEPT !.written = t.written \o b]

\* a faulty variant of the report: the column goes out 0-based
escapeDeviceStatusReportZeroBasedCol(t, msg) ==
    IF msg = Itoa(6)
    THEN Write(t, <<asciiEscape, Ch.lbracket>> \o Itoa(t.cursorRow + 1) \o <<Ch.semi>>
                    \o Itoa(t.cursorCol) \o <<82>>)
    ELSE t

escapeDeviceStatusReport(t, msg) ==
    IF msg = Itoa(5) THEN Write(t, <<asciiEscape, Ch.lbracket, 48, 110>>)
    ELSE IF msg = Itoa(6) THEN
        LET row == t.cursorRow + 1
            col == t.cursorCol + 1
        IN  Write(t, <<asciiEscape, Ch.lbracket>> \o Itoa(row) \o <<Ch.semi>>
                        \o Itoa(col) \o <<82>>)
    ELSE t

escapePrinterMode(t, code) ==
    IF code = Itoa(5) THEN [t EXCEPT !.state.printing = TRUE]
    ELSE IF code = Itoa(4) THEN
        \* printDataSet: t.printData != nil; a nil printer drops the data
        [t EXCEPT !.state.printing = FALSE,
                  !.printed = IF t.printDataSet THEN Append(t.printed, t.printData)
                              ELSE t.printed,
                  !.printData = <<>>, !.printDataSet = FALSE]
    ELSE t

escapeDeviceAttribute(t, code) ==
    IF Len(code) = 0 THEN t
    ELSE IF code[1] = Ch.gt
    THEN Write(t, <<asciiEscape, Ch.lbracket, Ch.gt, 48, Ch.semi, 49, 49, 53, Ch.semi, 48, 99>>)
    ELSE Write(t, <<asciiEscape, Ch.lbracket, Ch.question, 54, 99>>)
(* -------------------------------- color.go ----------------------------- *)
\* colours are kept as the reference the interpreter selected; the theme
\* resolves them when the grid is drawn
Color(kind, v) == [k |-> kind, v |-> v]

getBasicColor(index) ==
    IF index < 0 \/ index >= 8 THEN Color("white", 0) ELSE Color("basic", index)

getBrightColor(index) ==
    IF index < 0 \/ index >= 8 THEN Color("white", 0) ELSE Color("bright", index)

colourBands == <<0, 95, 135, 175, 215, 255>>

RGBA(r, g, b) == Color("rgb", (r % 256) * 65536 + (g % 256) * 256 + (b % 256))

\* currentBG after a reset of the background
DefaultBG(t) == t.backgroundColorOverride

IsSpace(c) == c \in {9, 10, 11, 12, 13, 32, 133, 160}

RECURSIVE TrimLeft(_)
TrimLeft(s) == IF Len(s) > 0 /\ IsSpace(Head(s)) THEN TrimLeft(Tail(s)) ELSE s

RECURSIVE TrimRight(_)
TrimRight(s) ==
    IF Len(s) > 0 /\ IsSpace(s[Len(s)]) THEN TrimRight(SubSeq(s, 1, Len(s) - 1)) ELSE s

\* strings.TrimSpace
TrimSpace(s) == TrimRight(TrimLeft(s))

\* the switch of handleColorMode on the parsed mode
ColorModeSwitch(t, mode) ==
    IF mode = 0 THEN [t EXCEPT !.currentBG = NilColor, !.currentFG = NilColor,
                               !.bold = FALSE, !.blinking = FALSE,
                               !.underlined = FALSE]
    ELSE IF mode = 1 THEN [t EXCEPT !.bold = TRUE]
    ELSE IF mode = 4 THEN [t EXCEPT !.underlined = TRUE]
    ELSE IF mode = 5 THEN [t EXCEPT !.blinking = TRUE]
    ELSE IF mode = 24 THEN [t EXCEPT !.underlined = FALSE]
    ELSE IF mode = 7 THEN
        [t EXCEPT !.currentBG = IF t.currentFG = NilColor
                                THEN Color("themeForeground", 0) ELSE t.currentFG,
                  !.currentFG = IF t.currentBG = NilColor
                                THEN Color("themeDisabledButton", 0) ELSE t.currentBG]
    ELSE IF mode = 27 THEN
        [t EXCEPT !.currentBG = IF t.currentFG # NilColor THEN DefaultBG(t)
                                ELSE t.currentFG,
                  !.currentFG = IF t.currentBG # NilColor THEN NilColor
                                ELSE t.currentBG]
    ELSE IF mode >= 30 /\ mode <= 37 THEN [t EXCEPT !.currentFG = getBasicColor(mode - 30)]
    ELSE IF mode = 39 THEN [t EXCEPT !.currentFG = NilColor]
    ELSE IF mode >= 40 /\ mode <= 47 THEN [t EXCEPT !.currentBG = getBasicColor(mode - 40)]
    ELSE IF mode = 49 THEN [t EXCEPT !.currentBG = DefaultBG(t)]
    ELSE IF mode >= 90 /\ mode <= 97 THEN [t EXCEPT !.currentFG = getBrightColor(mode - 90)]
    ELSE IF mode >= 100 /\ mode <= 107
    THEN [t EXCEPT !.currentBG = getBrightColor(mode - 100)]
    ELSE t

handleColorMode(t, modeStr0) ==
    LET modeStr == TrimSpace(modeStr0)
    IN  IF modeStr = <<>> THEN t
        ELSE IF HasPrefix(modeStr, <<52, Ch.colon>>) THEN [t EXCEPT !.underlined = TRUE]
        ELSE IF Contains(modeStr, Ch.colon) THEN t
        ELSE IF ~AllDigits(modeStr) THEN t
        ELSE ColorModeSwitch(t, Atoi(modeStr))

handleColorModeMap(t, mode, ids) ==
    IF ~AtoiOk(ids) THEN t
    ELSE LET id == Atoi(ids)
             c == IF id <= 7 THEN getBasicColor(id)
                  ELSE IF id <= 15 THEN getBrightColor(id - 8)
                  ELSE IF id <= 231 THEN
                      LET n == id - 16
                          b == n % 6
                          n2 == (n - b) \div 6
                          g == n2 % 6
                          r == (n2 - g) \div 6
                      IN  RGBA(colourBands[r + 1], colourBands[g + 1], colourBands[b + 1])
                  ELSE IF id <= 255 THEN Color("gray", (id - 232) * (256 \div 24))
                  ELSE NilColor
         IN  IF mode = Itoa(38) THEN [t EXCEPT !.currentFG = c]
             ELSE IF mode = Itoa(48) THEN [t EXCEPT !.currentBG = c]
             ELSE t

handleColorModeRGB(t, mode, rs, gs, bs) ==
    LET c == RGBA(Atoi(rs), Atoi(gs), Atoi(bs))
    IN  IF mode = Itoa(38) THEN [t EXCEPT !.currentFG = c]
        ELSE IF mode = Itoa(48) THEN [t EXCEPT !.currentBG = c]
        ELSE t

RECURSIVE ColorModes(_, _, _)
\* the loop of handleColorEscape over modes, i 1-based
ColorModes(t, modes, i) ==
    IF i > Len(modes) THEN t
    ELSE LET mode == modes[i] IN
        IF mode = <<>> THEN ColorModes(t, modes, i + 1)
        ELSE IF (mode = Itoa(38) \/ mode = Itoa(48)) /\ i + 1 <= Len(modes) THEN
            IF modes[i + 1] = Itoa(5) /\ i + 2 <= Len(modes)
            THEN ColorModes(handleColorModeMap(t, mode, modes[i + 2]), modes, i + 3)
            ELSE IF modes[i + 1] = Itoa(2) /\ i + 4 <= Len(modes)
            THEN ColorModes(handleColorModeRGB(t, mode, modes[i + 2], modes[i + 3],
                                               modes[i + 4]), modes, i + 5)
            ELSE ColorModes(t, modes, i + 1)
        ELSE ColorModes(handleColorMode(t, mode), modes, i + 1)

handleColorEscape(t, message) ==
    IF message = <<>> \/ message = Itoa(0)
    THEN [t EXCEPT !.currentBG = DefaultBG(t), !.currentFG = NilColor,
                   !.bold = FALSE, !.blinking = FALSE, !.underlined = FALSE]
    ELSE IF message[1] = Ch.gt \/ message[1] = Ch.question THEN t
    ELSE ColorModes(t, Split(message, Ch.semi), 1)

escapeColorMode(t, msg) == handleColorEscape(t, msg)
(* ------------------------- osc.go, apc.go (handlers) ------------------- *)
\* string(r): the UTF-8 bytes of a rune
EncodeRune(r) ==
    IF r < 128 THEN <<r>>
    ELSE IF r < 2048 THEN <<192 + (r \div 64), 128 + (r % 64)>>
    ELSE IF r < 65536
    THEN <<224 + (r \div 4096), 128 + ((r \div 64) % 64), 128 + (r % 64)>>
    ELSE <<240 + (r \div 262144), 128 + ((r \div 4096) % 64),
           128 + ((r \div 64) % 64), 128 + (r % 64)>>

RECURSIVE EncodeRunes(_)
\* []byte(s) for a string held as its runes
EncodeRunes(s) ==
    IF Len(s) = 0 THEN <<>> ELSE EncodeRune(Head(s)) \o EncodeRunes(Tail(s))

\* strings.SplitN(code, ";", 2)
SplitN2(s, sep) ==
    IF ~Contains(s, sep) THEN <<s>>
    ELSE LET k == CHOOSE i \in 1..Len(s) :
                     s[i] = sep /\ \A j \in 1..(i - 1) : s[j] # sep
         IN  <<SubSeq(s, 1, k - 1), SubSeq(s, k + 1, Len(s))>>

\* the Config the listeners are sent
Config(t) == [Title |-> t.Title, Rows |-> t.Rows, Columns |-> t.Columns]

\* l <- c in a select with a default: c is handed to a receiver blocked on
\* the channel, else queued if the buffer has room, else the default case
\* runs and c is sent to no one
SendOrSkip(l, c) ==
    IF l.waiting THEN [l EXCEPT !.waiting = FALSE, !.received = Append(l.received, c)]
    ELSE IF Len(l.buf) < l.cap THEN [l EXCEPT !.buf = Append(l.buf, c)]
    ELSE l

onConfigure(t) ==
    [t EXCEPT !.listeners =
        [i \in DOMAIN t.listeners |-> SendOrSkip(t.listeners[i], Config(t))]]

setTitle(t, title) == onConfigure([t EXCEPT !.Title = title])

\* setDirectory: the working directory follows the URI of OSC 7
setDirectory(t, uri) == [t EXCEPT !.directory = uri]

\* RegisterOSCHandler: t.oscHandlers[command] = handler. A handler is a
\* callback of the embedding program; the model records each of its calls,
\* with the command it was registered for and the data it was given, in
\* oscCalls.
RegisterOSCHandler(t, command) ==
    [t EXCEPT !.oscHandlers = t.oscHandlers \cup {command}]

\* the switch of handleOSC on the command number, when no handler is
\* registered for it
OSCBuiltin(t, commandNum, data) ==
    IF commandNum \in {0, 2} THEN setTitle(t, data)
    ELSE IF commandNum = 7 THEN setDirectory(t, data)
    ELSE t

\* a dispatch that calls the registered handler and then goes on to the
\* built-in behaviour of the command
OSCDispatchFallingThrough(t, commandNum, data) ==
    IF commandNum \in t.oscHandlers
    THEN OSCBuiltin([t EXCEPT !.oscCalls = Append(t.oscCalls, <<commandNum, data>>)],
                    commandNum, data)
    ELSE OSCBuiltin(t, commandNum, data)

\* handleOSC: a registered handler takes the place of the built-in behaviour
OSCDispatch(t, commandNum, data) ==
    IF commandNum \in t.oscHandlers
    THEN [t EXCEPT !.oscCalls = Append(t.oscCalls, <<commandNum, data>>)]
    ELSE OSCBuiltin(t, commandNum, data)

OSCParts(t, parts) ==
    IF Len(parts) < 2 \/ ~AtoiOk(parts[1]) THEN t
    ELSE OSCDispatch(t, Atoi(parts[1]), parts[2])

handleOSC(t, code) ==
    IF Len(code) = 0 THEN t ELSE OSCParts(t, SplitN2(code, Ch.semi))

\* RegisterAPCHandler: t.apcHandlers[APC] = handler; as for OSC, the calls of
\* the handlers are recorded, in apcCalls, with the prefix and the argument
RegisterAPCHandler(t, APC) ==
    [t EXCEPT !.apcHandlers = t.apcHandlers \cup {APC}]

RECURSIVE APCRange(_, _, _)
\* the range loop of handleAPC over the keys in the order `keys': the first
\* key that is a prefix of code has its handler called, and the loop ends
APCRange(t, keys, code) ==
    IF Len(keys) = 0 THEN t
    ELSE IF HasPrefix(code, Head(keys))
    THEN [t EXCEPT !.apcCalls =
            Append(t.apcCalls,
                   <<Head(keys), SubSeq(code, Len(Head(keys)) + 1, Len(code))>>)]
    ELSE APCRange(t, Tail(keys), code)

\* handleAPC: Go ranges over the map t.apcHandlers in an order of its own
\* choosing; apcRange holds the order this read will see
handleAPC(t, code) == APCRange(t, t.apcRange, code)

\* decSpecialGraphics: the glyphs of ESC ( 0 for '`' .. '~'
decSpecialGraphics ==
    <<9670, 9618, 9225, 9228, 9229, 9226, 176, 177, 9252, 9227, 9496, 9488, 9484,
      9492, 9532, 9146, 9147, 9472, 9472, 9149, 9500, 9508, 9524, 9516, 9474,
      8804, 8805, 960, 8800, 163, 183>>

charSetMap(cs, r) ==
    IF cs = "DECSpecialGraphics" /\ r >= 96 /\ r <= 126 THEN decSpecialGraphics[r - 95]
    ELSE r

(* ------------------------------ the parser ----------------------------- *)
RECURSIVE handleOutputLoop(_, _, _)

RECURSIVE ReplaceEscEsc(_)
\* strings.ReplaceAll(inner, "\x1b\x1b", "\x1b")
ReplaceEscEsc(s) ==
    IF Len(s) < 2 THEN s
    ELSE IF s[1] = asciiEscape /\ s[2] = asciiEscape
    THEN <<asciiEscape>> \o ReplaceEscEsc(SubSeq(s, 3, Len(s)))
    ELSE <<s[1]>> \o ReplaceEscEsc(Tail(s))

RECURSIVE OutputChars(_, _)
\* for _, r := range inner { t.handleOutputChar(rune(r)) }
OutputChars(t, s) ==
    IF Len(s) = 0 \/ t.panicked THEN t
    ELSE OutputChars(handleOutputChar(t, Head(s)), Tail(s))

\* the state when handleOutput returns: the escape index made relative to
\* the end of the chunk
EndOfChunk(t, i) ==
    IF t.state.esc # noEscape THEN [t EXCEPT !.state.esc = t.state.esc - i] ELSE t

\* handleOutput: the loop over the runes of buf, from index -1
handleOutput(t, buf) == handleOutputLoop(t, buf, 0 - 1)

DCSInner(t, inner) ==
    IF ~Contains(inner, asciiEscape) THEN OutputChars(t, inner)
    ELSE handleOutput(t, EncodeRunes(inner))

tmuxPrefix == <<116, 109, 117, 120, 59>>

screenPrefix == <<115, 99, 114, 101, 101, 110, 59>>

\* handleDCS: the payload of a tmux; or screen; passthrough is parsed as
\* terminal output; any other DCS string is dropped
handleDCS(t, code) ==
    IF HasPrefix(code, tmuxPrefix) \/ HasPrefix(code, screenPrefix)
    THEN DCSInner(t, IF HasPrefix(code, tmuxPrefix)
                     THEN ReplaceEscEsc(SubSeq(code, Len(tmuxPrefix) + 1, Len(code)))
                     ELSE SubSeq(code, Len(screenPrefix) + 1, Len(code)))
    ELSE t
\* the escapes table: the handler of a CSI final byte, applied to the
\* parameter string; an unknown final byte is ignored
escapes(t, final, msg) ==
    IF final = 64 THEN escapeInsertChars(t, msg)              \* '@'
    ELSE IF final = 65 THEN escapeMoveCursorUp(t, msg)        \* 'A'
    ELSE IF final = 66 THEN escapeMoveCursorDown(t, msg)      \* 'B'
    ELSE IF final = 67 THEN escapeMoveCursorRight(t, msg)     \* 'C'
    ELSE IF final = 68 THEN escapeMoveCursorLeft(t, msg)      \* 'D'
    ELSE IF final = 100 THEN escapeMoveCursorRow(t, msg)      \* 'd'
    ELSE IF final = 72 THEN escapeMoveCursor(t, msg)          \* 'H'
    ELSE IF final = 102 THEN escapeMoveCursor(t, msg)         \* 'f'
    ELSE IF final = 71 THEN escapeMoveCursorCol(t, msg)       \* 'G'
    ELSE IF final = 104 THEN escapePrivateModeOn(t, msg)      \* 'h'
    ELSE IF final = 76 THEN escapeInsertLines(t, msg)         \* 'L'
    ELSE IF final = 108 THEN escapePrivateModeOff(t, msg)     \* 'l'
    ELSE IF final = 109 THEN escapeColorMode(t, msg)          \* 'm'
    ELSE IF final = 110 THEN escapeDeviceStatusReport(t, msg) \* 'n'
    ELSE IF final = 74 THEN escapeEraseInScreen(t, msg)       \* 'J'
    ELSE IF final = 75 THEN escapeEraseInLine(t, msg)         \* 'K'
    ELSE IF final = 80 THEN escapeDeleteChars(t, msg)         \* 'P'
    ELSE IF final = 114 THEN escapeSetScrollArea(t, msg)      \* 'r'
    ELSE IF final = 115 THEN escapeSaveCursor(t, msg)         \* 's'
    ELSE IF final = 83 THEN escapeScrollUp(t, msg)            \* 'S'
    ELSE IF final = 84 THEN escapeScrollDown(t, msg)          \* 'T'
    ELSE IF final = 117 THEN escapeRestoreCursor(t, msg)      \* 'u'
    ELSE IF final = 105 THEN escapePrinterMode(t, msg)        \* 'i'
    ELSE IF final = 99 THEN escapeDeviceAttribute(t, msg)     \* 'c'
    ELSE t

\* handleEscape: runes[len(code)-1] indexes the runes by the byte length,
\* which is past the end as soon as the code holds a multi-byte rune
handleEscape(t, code0) ==
    LET code == trimLeftZeros(code0)
    IN  IF code = <<>> THEN t
        ELSE IF ByteLen(code) - 1 >= Len(code) THEN Panic(t)
        ELSE escapes(t, code[Len(code)], SubSeq(code, 1, Len(code) - 1))

\* IND, from ESC D and from the C1 control 0x84
Index(t) ==
    IF t.cursorRow < t.scrollBottom THEN moveCursor(t, t.cursorRow + 1, t.cursorCol)
    ELSE scrollDown(t)

\* NEL, from ESC E and from the C1 control 0x85
NextLine(t) ==
    IF t.cursorRow < t.scrollBottom THEN moveCursor(t, t.cursorRow + 1, 0)
    ELSE LET t1 == scrollDown(t)
         IN  IF t1.panicked THEN t1 ELSE moveCursor(t1, t1.scrollBottom, 0)

\* RI, from ESC M and from the C1 control 0x8d
ReverseIndex(t) ==
    IF t.cursorRow > t.scrollTop THEN moveCursor(t, t.cursorRow - 1, t.cursorCol)
    ELSE scrollUp(t)

\* the string terminator ESC \ in parseEscState
TerminateOSC(t) ==
    IF t.state.osc THEN [handleOSC(t, t.state.code) EXCEPT !.state.osc = FALSE] ELSE t

TerminateAPC(t) ==
    IF t.state.apc THEN [handleAPC(t, t.state.code) EXCEPT !.state.apc = FALSE] ELSE t

TerminateDCS(t) ==
    IF t.state.dcs /\ ~t.panicked
    THEN [handleDCS(t, t.state.code) EXCEPT !.state.dcs = FALSE] ELSE t

StringTerminator(t) ==
    [TerminateDCS(TerminateAPC(TerminateOSC(t))) EXCEPT !.state.code = <<>>]

\* parseEscState: the byte after ESC; cont is shouldContinue
parseEscState(t, r) ==
    IF r = Ch.lbracket THEN [t |-> t, cont |-> TRUE]
    ELSE [cont |-> FALSE, t |->
        IF r = Ch.backslash THEN StringTerminator(t)
        ELSE IF r = Ch.rbracket THEN [t EXCEPT !.state.osc = TRUE]
        ELSE IF r = 80 THEN [t EXCEPT !.state.dcs = TRUE]
        ELSE IF r = Ch.lparen \/ r = Ch.rparen THEN [t EXCEPT !.state.vt100 = r]
        ELSE IF r = 55 THEN [t EXCEPT !.savedRow = t.cursorRow, !.savedCol = t.cursorCol]
        ELSE IF r = 56 THEN [t EXCEPT !.cursorRow = t.savedRow, !.cursorCol = t.savedCol]
        ELSE IF r = 68 THEN Index(t)
        ELSE IF r = 69 THEN NextLine(t)
        ELSE IF r = 77 THEN ReverseIndex(t)
        ELSE IF r = 99 THEN resetTerminal(t)
        ELSE IF r = Ch.underscore THEN [t EXCEPT !.state.apc = TRUE]
        ELSE t]

\* parseEscape: accumulate until a final byte 0x40-0x7E, then dispatch
parseEscape(t, r) ==
    LET code == t.state.code \o <<r>>
    IN  IF r >= Ch.at /\ r <= Ch.tilde
        THEN [handleEscape([t EXCEPT !.state.code = code], code)
                 EXCEPT !.state.code = <<>>, !.state.esc = noEscape]
        ELSE [t EXCEPT !.state.code = code]

printEnd == <<asciiEscape, Ch.lbracket, 52, 105>>

\* a parsePrinting that ends printer mode on the exit sequence without
\* taking the sequence off the data it hands to the printer
parsePrintingKeepingExit(t, buf, size) ==
    LET data == t.printData \o SubSeq(buf, 1, size)
        n == Len(data)
    IN  IF n >= 4 /\ SubSeq(data, n - 3, n) = printEnd
        THEN [escapePrinterMode([t EXCEPT !.printData = data, !.printDataSet = TRUE],
                                Itoa(4))
                 EXCEPT !.state.esc = noEscape]
        ELSE [t EXCEPT !.printData = data, !.printDataSet = TRUE]

\* parsePrinting: the bytes of one rune join the print data; the exit
\* sequence ESC [ 4 i is found as a suffix of the accumulated data
parsePrinting(t, buf, size) ==
    LET data == t.printData \o SubSeq(buf, 1, size)
        n == Len(data)
    IN  IF n >= 4 /\ SubSeq(data, n - 3, n) = printEnd
        THEN [escapePrinterMode([t EXCEPT !.printData = SubSeq(data, 1, n - 4),
                                          !.printDataSet = TRUE],
                                Itoa(4))
                 EXCEPT !.state.esc = noEscape]
        ELSE [t EXCEPT !.printData = data, !.printDataSet = TRUE]

parseAPC(t, r) ==
    IF r = 0
    THEN [handleAPC(t, t.state.code) EXCEPT !.state.code = <<>>, !.state.apc = FALSE]
    ELSE [t EXCEPT !.state.code = t.state.code \o <<r>>]

parseDCS(t, r) ==
    IF r = 0 THEN t ELSE [t EXCEPT !.state.code = t.state.code \o <<r>>]

parseOSC(t, r) ==
    IF r = asciiBell \/ r = 0
    THEN [handleOSC(t, t.state.code) EXCEPT !.state.code = <<>>, !.state.osc = FALSE]
    ELSE [t EXCEPT !.state.code = t.state.code \o <<r>>]

\* the DCS branch of the loop: ESC is held back until the next rune shows
\* whether it starts the terminator ESC \
DCSStep(t, r) ==
    IF t.state.dcsEscPending /\ r = Ch.backslash
    THEN [handleDCS(t, t.state.code)
             EXCEPT !.state.dcs = FALSE, !.state.code = <<>>,
                    !.state.dcsEscPending = FALSE]
    ELSE LET t1 == IF t.state.dcsEscPending
                   THEN [t EXCEPT !.state.code = t.state.code \o <<asciiEscape>>,
                                  !.state.dcsEscPending = FALSE]
                   ELSE t
         IN  IF r = asciiEscape THEN [t1 EXCEPT !.state.dcsEscPending = TRUE]
             ELSE parseDCS(t1, r)

\* t.parseEscape(r); if t.state.esc == noEscape { t.state.csi = false }
EndCSI(t) == IF t.state.esc = noEscape THEN [t EXCEPT !.state.csi = FALSE] ELSE t

\* if cont := t.parseEscState(r); cont { continue }; t.state.esc = noEscape
EndEscState(p) == IF p.cont THEN p.t ELSE [p.t EXCEPT !.state.esc = noEscape]

\* specialChars: the control characters with a handler of their own
specialChars == {asciiBell, asciiBackspace, Ch.LF, Ch.VT, Ch.FF, Ch.CR, Ch.HT,
                 Ch.SO, Ch.SI}

handleSpecialChar(t, r) ==
    IF r = asciiBell THEN handleOutputBell(t)
    ELSE IF r = asciiBackspace THEN handleOutputBackspace(t)
    ELSE IF r \in {Ch.LF, Ch.VT, Ch.FF} THEN handleOutputLineFeed(t)
    ELSE IF r = Ch.CR THEN handleOutputCarriageReturn(t)
    ELSE IF r = Ch.HT THEN handleOutputTab(t)
    ELSE IF r = Ch.SO THEN handleShiftOut(t)
    ELSE handleShiftIn(t)

\* one iteration of the loop of handleOutput: the rune r of size bytes at
\* the head of buf, with the loop index i
handleOutputRune(t, buf, r, size, i) ==
    IF r = RuneError /\ size = 1 /\ ~t.state.printing THEN t
    ELSE IF t.state.printing THEN parsePrinting(t, buf, size)
    ELSE IF r = 132 THEN Index(t)
    ELSE IF r = 133 THEN NextLine(t)
    ELSE IF r = 141 THEN ReverseIndex(t)
    ELSE IF r = 144 THEN [t EXCEPT !.state.dcs = TRUE]
    ELSE IF r = 155 THEN [t EXCEPT !.state.csi = TRUE]
    ELSE IF r = 157 THEN [t EXCEPT !.state.osc = TRUE]
    ELSE IF r = 159 THEN [t EXCEPT !.state.apc = TRUE]
    ELSE IF t.state.dcs THEN DCSStep(t, r)
    ELSE IF t.state.csi THEN EndCSI(parseEscape(t, r))
    ELSE IF r = asciiEscape THEN [t EXCEPT !.state.esc = i]
    ELSE IF t.state.esc = i - 1 THEN EndEscState(parseEscState(t, r))
    ELSE IF t.state.apc THEN parseAPC(t, r)
    ELSE IF t.state.osc THEN parseOSC(t, r)
    ELSE IF t.state.vt100 # 0
    THEN [handleVT100(t, <<t.state.vt100, r>>) EXCEPT !.state.vt100 = 0]
    ELSE IF t.state.esc # noEscape THEN parseEscape(t, r)
    ELSE IF r \in specialChars THEN handleSpecialChar(t, r)
    ELSE handleOutputChar(t, charSetMap(IF t.useG1CharSet THEN t.g1Charset
                                        ELSE t.g0Charset, r))

\* the loop of handleOutput; a run-time panic or a loop that never ends
\* stops the reader goroutine where it is
handleOutputLoop(t, buf, i) ==
    IF t.panicked \/ t.hung THEN t
    ELSE LET d == DecodeRune(buf)
         IN  IF d.size = 0 THEN EndOfChunk(t, i)
             ELSE handleOutputLoop(handleOutputRune(t, buf, d.r, d.size, i),
                                   SubSeq(buf, d.size + 1, Len(buf)), i + d.size)

(* ---------------------------- term.go: run ----------------------------- *)
\* the slice handleOutput returns: what is left of buf when its loop ends
RECURSIVE handleOutputLeftOver(_)
handleOutputLeftOver(buf) ==
    LET d == DecodeRune(buf)
    IN  IF d.size = 0 THEN buf
        ELSE handleOutputLeftOver(SubSeq(buf, d.size + 1, Len(buf)))

\* one iteration of the loop of run: the bytes of one Read, behind what
\* the previous iteration left over, go through handleOutput
run(t, lo, chunk) ==
    LET fullBuf == IF Len(lo) > 0 THEN lo \o chunk ELSE chunk
    IN  [t |-> handleOutput(t, fullBuf), leftOver |-> handleOutputLeftOver(fullBuf)]

(* ------------------------------ the inputs ----------------------------- *)
ESC(final) == <<asciiEscape, final>>

CSI(params, final) == <<asciiEscape, Ch.lbracket>> \o params \o <<final>>

CSI2(a, b, final) == CSI(Itoa(a) \o <<Ch.semi>> \o Itoa(b), final)

\* n printable characters: a, b, c, ...
Text(n) == [k \in 1..n |-> 96 + k]

\* what the claims read of the terminal as it was before the last read
Snapshot(t) ==
    [cursorRow |-> t.cursorRow, cursorCol |-> t.cursorCol,
     wrapPending |-> t.wrapPending, wrapAround |-> t.wrapAround,
     scrollTop |-> t.scrollTop, scrollBottom |-> t.scrollBottom,
     fresh |-> Len(Row(t, t.cursorRow).Cells) = 0,
     ground |-> t.state = GroundState,
     written |-> t.written,
     all |-> t]

In(op, n, m) == [op |-> op, n |-> n, m |-> m]

\* widths of the grid at start: the narrowest, a narrow one, and one just
\* past a tab stop
Widths == {1, MaxCols, tabWidth + 1}

Init ==
    /\ \E rows \in 1..MaxRows, cols \in Widths : term = NewTerminal(rows, cols)
    /\ leftOver = <<>>
    /\ pending = <<>>
    /\ fed = <<>>
    /\ prev = Snapshot(term)
    /\ lastIn = In("none", 0, 0)
    /\ steps = 0

\* the reader goroutine is alive: it has neither panicked nor entered a
\* loop that never ends
Running == ~term.panicked /\ ~term.hung

CanRead == steps < MaxSteps /\ Running

\* run reads one chunk holding the whole of `bytes'
Feed(op, n, m, bytes) ==
    /\ \E out \in {run(term, leftOver, bytes)} :
           term' = out.t /\ leftOver' = out.leftOver
    /\ prev' = Snapshot(term)
    /\ lastIn' = In(op, n, m)
    /\ steps' = steps + 1
    /\ UNCHANGED <<pending, fed>>

PrintText ==
    /\ CanRead
    /\ \E n \in {1, term.Columns, term.Columns + 1} : Feed("text", n, 0, Text(n))

CarriageReturn == CanRead /\ Feed("CR", 0, 0, <<Ch.CR>>)

LineFeed == CanRead /\ Feed("LF", 0, 0, <<Ch.LF>>)

Backspace == CanRead /\ Feed("BS", 0, 0, <<asciiBackspace>>)

Tab == CanRead /\ Feed("HT", 0, 0, <<Ch.HT>>)

CursorPosition ==
    /\ CanRead
    /\ \E r \in 1..MaxParam, c \in 1..MaxParam : Feed("CUP", r, c, CSI2(r, c, 72))

CursorUp == CanRead /\ \E n \in 1..MaxParam : Feed("CUU", n, 0, CSI(Itoa(n), 65))

CursorDown == CanRead /\ \E n \in 1..MaxParam : Feed("CUD", n, 0, CSI(Itoa(n), 66))

CursorForward == CanRead /\ \E n \in 1..MaxParam : Feed("CUF", n, 0, CSI(Itoa(n), 67))

CursorBack == CanRead /\ \E n \in 1..MaxParam : Feed("CUB", n, 0, CSI(Itoa(n), 68))

CursorColumn == CanRead /\ \E n \in 1..MaxParam : Feed("CHA", n, 0, CSI(Itoa(n), 71))

CursorRow == CanRead /\ \E n \in 1..MaxParam : Feed("VPA", n, 0, CSI(Itoa(n), 100))

\* CSI n @, and CSI @ for n = 0
InsertChars ==
    /\ CanRead
    /\ \E n \in 0..MaxParam : Feed("ICH", n, 0, CSI(IF n = 0 THEN <<>> ELSE Itoa(n), 64))

\* CSI n P, and CSI P for n = 0
DeleteChars ==
    /\ CanRead
    /\ \E n \in 0..MaxParam : Feed("DCH", n, 0, CSI(IF n = 0 THEN <<>> ELSE Itoa(n), 80))

SetScrollArea ==
    /\ CanRead
    /\ \E top \in 1..MaxParam, bottom \in 0..(MaxParam + 1) :
           Feed("DECSTBM", top, bottom, CSI2(top, bottom, 114))

SaveCursor == CanRead /\ Feed("ESC7", 0, 0, ESC(55))

RestoreCursor == CanRead /\ Feed("ESC8", 0, 0, ESC(56))

\* ESC 7, CUP 1;1, ESC 8 in one read
SaveMoveRestore ==
    CanRead /\ Feed("ESC7-CUP-ESC8", 1, 1, ESC(55) \o CSI2(1, 1, 72) \o ESC(56))

CsiSaveCursor == CanRead /\ Feed("CSIs", 0, 0, CSI(<<>>, 115))

CsiRestoreCursor == CanRead /\ Feed("CSIu", 0, 0, CSI(<<>>, 117))

PrivateSaveCursor ==
    CanRead /\ Feed("1048h", 0, 0, CSI(<<Ch.question>> \o Itoa(1048), 104))

PrivateRestoreCursor ==
    CanRead /\ Feed("1048l", 0, 0, CSI(<<Ch.question>> \o Itoa(1048), 108))

AutowrapOff == CanRead /\ Feed("7l", 0, 0, CSI(<<Ch.question>> \o Itoa(7), 108))

AutowrapOn == CanRead /\ Feed("7h", 0, 0, CSI(<<Ch.question>> \o Itoa(7), 104))

Reset == CanRead /\ Feed("RIS", 0, 0, ESC(99))

IndexDown == CanRead /\ Feed("IND", 0, 0, ESC(68))

ReverseIndexUp == CanRead /\ Feed("RI", 0, 0, ESC(77))

DeviceStatusReport == CanRead /\ Feed("DSR", 6, 0, CSI(Itoa(6), 110))

Next ==
    \/ PrintText \/ CarriageReturn \/ LineFeed \/ Backspace \/ Tab
    \/ CursorPosition \/ CursorUp \/ CursorDown \/ CursorForward \/ CursorBack
    \/ CursorColumn \/ CursorRow
    \/ InsertChars \/ DeleteChars \/ SetScrollArea
    \/ SaveCursor \/ RestoreCursor \/ SaveMoveRestore
    \/ CsiSaveCursor \/ CsiRestoreCursor
    \/ PrivateSaveCursor \/ PrivateRestoreCursor
    \/ AutowrapOff \/ AutowrapOn
    \/ Reset \/ IndexDown \/ ReverseIndexUp
    \/ DeviceStatusReport

\* the terminal fed whole sequences, one per read
Spec == Init /\ [][Next]_vars

\* the part of Spec that moves, saves and restores the cursor and asks for
\* its position
NextReport ==
    \/ PrintText \/ CarriageReturn \/ CursorPosition
    \/ SaveCursor \/ RestoreCursor \/ SaveMoveRestore
    \/ DeviceStatusReport

SpecReport == Init /\ [][NextReport]_vars

(* ------------------------ reads of arbitrary size ---------------------- *)
\* the sequences a sample stream is made of
StreamTokens ==
    {Text(2), CSI2(2, 2, 72), ESC(55), ESC(56), CSI(Itoa(6), 110),
     CSI(<<Ch.question>> \o Itoa(7), 108), <<226, 130, 172>>}

\* the streams the pty may hold: up to MaxStreamTokens sequences in a row
RECURSIVE Streams(_)
Streams(n) ==
    IF n = 0 THEN {<<>>}
    ELSE Streams(n - 1) \cup {s \o tok : s \in Streams(n - 1), tok \in StreamTokens}

InitChunks ==
    /\ \E rows \in 1..MaxRows, cols \in Widths : term = NewTerminal(rows, cols)
    /\ leftOver = <<>>
    /\ pending \in Streams(MaxStreamTokens)
    /\ fed = <<>>
    /\ prev = Snapshot(term)
    /\ lastIn = In("none", 0, 0)
    /\ steps = 0

\* one iteration of run: Read returns the first k bytes the pty holds
Read ==
    /\ steps < MaxChunkSteps
    /\ Running
    /\ \E k \in 1..Len(pending) :
        /\ \E out \in {run(term, leftOver, SubSeq(pending, 1, k))} :
               term' = out.t /\ leftOver' = out.leftOver
        /\ pending' = SubSeq(pending, k + 1, Len(pending))
        /\ fed' = fed \o SubSeq(pending, 1, k)
        /\ lastIn' = In("read", k, 0)
    /\ prev' = Snapshot(term)
    /\ steps' = steps + 1

NextChunks == Read

SpecChunks == InitChunks /\ [][NextChunks]_vars

(* ------------------- queries, attributes, modes, resets ---------------- *)
\* the parameters of a Device Attributes query: CSI c, CSI 0 c, CSI > c
DAParams == <<<<>>, <<Ch.zero>>, <<Ch.gt>>>>

DeviceAttributes ==
    CanRead /\ \E k \in 1..Len(DAParams) : Feed("DA", k, 0, CSI(DAParams[k], 99))

\* the SGR codes sent: bold, underline, blink, red foreground, green
\* background
SGRCodes == {1, 4, 5, 31, 42}

\* CSI X m
SelectGraphics ==
    CanRead /\ \E x \in SGRCodes : Feed("SGR", x, 0, CSI(Itoa(x), 109))

\* CSI 0 ; X m
ResetThenSelect ==
    CanRead /\ \E x \in SGRCodes :
        Feed("SGR0", x, 0, CSI(<<Ch.zero, Ch.semi>> \o Itoa(x), 109))

VerticalTab == CanRead /\ Feed("LF", 1, 0, <<Ch.VT>>)

FormFeed == CanRead /\ Feed("LF", 2, 0, <<Ch.FF>>)

NewLineModeOn == CanRead /\ Feed("20h", 0, 0, CSI(Itoa(20), 104))

NewLineModeOff == CanRead /\ Feed("20l", 0, 0, CSI(Itoa(20), 108))

\* CSI ! p
SoftReset == CanRead /\ Feed("DECSTR", 0, 0, CSI(<<33>>, 112))

\* CSI n M
DeleteLines == CanRead /\ \E n \in 1..MaxParam : Feed("DL", n, 0, CSI(Itoa(n), 77))

\* what a program does on the alternate screen: nothing, a print, a move
\* and a print, an erase of the screen
AltEdits == <<<<>>, Text(1), CSI2(2, 2, 72) \o Text(2), CSI(Itoa(2), 74)>>

\* CSI ? 1049 h, the edits, CSI ? 1049 l in one read
AltScreenRoundTrip ==
    CanRead /\ \E k \in 1..Len(AltEdits) :
        Feed("ALT", k, 0, CSI(<<Ch.question>> \o Itoa(1049), 104) \o AltEdits[k]
                          \o CSI(<<Ch.question>> \o Itoa(1049), 108))

NextModes ==
    \/ PrintText \/ CursorPosition \/ LineFeed \/ VerticalTab \/ FormFeed
    \/ AutowrapOff \/ Reset
    \/ DeviceAttributes \/ SelectGraphics \/ ResetThenSelect
    \/ NewLineModeOn \/ NewLineModeOff
    \/ SoftReset \/ DeleteLines \/ AltScreenRoundTrip

SpecModes == Init /\ [][NextModes]_vars

(* ------------------------ OSC, APC and DCS strings --------------------- *)
\* run reads one chunk holding the whole of `bytes', on the terminal t0
FeedFrom(t0, op, n, m, bytes) ==
    /\ \E out \in {run(t0, leftOver, bytes)} :
           term' = out.t /\ leftOver' = out.leftOver
    /\ prev' = Snapshot(t0)
    /\ lastIn' = In(op, n, m)
    /\ steps' = steps + 1
    /\ UNCHANGED <<pending, fed>>

\* a call of the embedding program on the terminal, between two reads
Call(op, n, t1) ==
    /\ term' = t1
    /\ prev' = Snapshot(term)
    /\ lastIn' = In(op, n, 0)
    /\ steps' = steps + 1
    /\ UNCHANGED <<leftOver, pending, fed>>

\* the OSC command numbers used: the title (built in), and one of no
\* built-in meaning
OSCCommands == {0, 42}

\* data of an OSC string: empty, plain, and holding a ';' of its own
OSCData == <<<<>>, <<120>>, <<120, Ch.semi, 121>>>>

\* the terminators of an OSC string: BEL and ESC \
OSCEnds == <<<<asciiBell>>, <<asciiEscape, Ch.backslash>>>>

OSCString(n, data, end) ==
    <<asciiEscape, Ch.rbracket>> \o Itoa(n) \o <<Ch.semi>> \o data \o end

RegisterOSC ==
    CanRead /\ \E n \in OSCCommands : Call("RegisterOSC", n, RegisterOSCHandler(term, n))

\* OSC n ; data, ended by BEL or by ESC \
OperatingSystemCommand ==
    CanRead /\ \E n \in OSCCommands, d \in 1..Len(OSCData), e \in 1..Len(OSCEnds) :
        Feed("OSC", n, d, OSCString(n, OSCData[d], OSCEnds[e]))

\* the APC prefixes handlers are registered for: p and p+q
APCPrefixes == <<<<97>>, <<97, 98>>>>

\* the payloads sent: one starting with p+q, one with p only, one with neither
APCPayloads == <<<<97, 98, 120>>, <<97, 120>>, <<120>>>>

RegisterAPC ==
    CanRead /\ \E k \in 1..Len(APCPrefixes) :
        Call("RegisterAPC", k, RegisterAPCHandler(term, APCPrefixes[k]))

\* the orders in which a range over a map with the keys S may visit them
RangeOrders(S) ==
    {o \in [1..Cardinality(S) -> S] : \A x \in S : \E i \in 1..Cardinality(S) : o[i] = x}

\* ESC _ payload ESC \
ApplicationProgramCommand ==
    CanRead /\ \E k \in 1..Len(APCPayloads), o \in RangeOrders(term.apcHandlers) :
        FeedFrom([term EXCEPT !.apcRange = o], "APC", k, 0,
                 <<asciiEscape, Ch.underscore>> \o APCPayloads[k]
                 \o <<asciiEscape, Ch.backslash>>)

\* the payloads of a passthrough: plain text, and an escape sequence: X, and
\* ESC [ 31 m X
DCSPayloads == <<<<88>>, CSI(Itoa(31), 109) \o <<88>>>>

DCSPrefixes == <<tmuxPrefix, screenPrefix>>

\* ESC P prefix payload ESC \
DevicePassthrough ==
    CanRead /\ \E p \in 1..Len(DCSPrefixes), k \in 1..Len(DCSPayloads) :
        Feed("DCS", p, k, <<asciiEscape, 80>> \o DCSPrefixes[p] \o DCSPayloads[k]
                          \o <<asciiEscape, Ch.backslash>>)

\* ESC _ payload BEL
ApplicationProgramCommandBell ==
    CanRead /\ \E k \in 1..Len(APCPayloads), o \in RangeOrders(term.apcHandlers) :
        FeedFrom([term EXCEPT !.apcRange = o], "APC-BEL", k, 0,
                 <<asciiEscape, Ch.underscore>> \o APCPayloads[k] \o <<asciiBell>>)

\* ESC P prefix payload BEL
DevicePassthroughBell ==
    CanRead /\ \E p \in 1..Len(DCSPrefixes), k \in 1..Len(DCSPayloads) :
        Feed("DCS-BEL", p, k, <<asciiEscape, 80>> \o DCSPrefixes[p] \o DCSPayloads[k]
                              \o <<asciiBell>>)

NextStrings ==
    \/ PrintText \/ CursorPosition
    \/ RegisterOSC \/ OperatingSystemCommand
    \/ RegisterAPC \/ ApplicationProgramCommand
    \/ DevicePassthrough

SpecStrings == Init /\ [][NextStrings]_vars

\* the strings, ended by ESC \ and by BEL
NextTerminators ==
    \/ RegisterOSC \/ OperatingSystemCommand
    \/ RegisterAPC \/ ApplicationProgramCommand \/ ApplicationProgramCommandBell
    \/ DevicePassthrough \/ DevicePassthroughBell

SpecTerminators == Init /\ [][NextTerminators]_vars

(* ------------------------------ printer mode --------------------------- *)
\* what a program sends to the printer: nothing, a character, a byte that is
\* no UTF-8, the start of the exit sequence, a 3-byte code point
PrintPayloads == <<<<>>, <<97>>, <<226>>, <<asciiEscape, Ch.lbracket, 52>>,
                   <<226, 130, 172>>>>

\* the character sent after the exit sequence
AfterPrint == <<98>>

\* CSI 5 i is read; the pty then holds a payload, the exit sequence ESC [ 4 i
\* and one character more
StartPrinting ==
    /\ Running /\ steps = 0 /\ lastIn.op = "none"
    /\ \E k \in 1..Len(PrintPayloads) :
        /\ \E out \in {run(term, leftOver, CSI(Itoa(5), 105))} :
               term' = out.t /\ leftOver' = out.leftOver
        /\ pending' = PrintPayloads[k] \o printEnd \o AfterPrint
        /\ lastIn' = In("5i", k, 0)
    /\ prev' = Snapshot(term)
    /\ UNCHANGED <<fed, steps>>

NextPrint == StartPrinting \/ Read

\* the terminal printing: the payload and the exit sequence arrive in reads
\* of any size
SpecPrint == Init /\ [][NextPrint]_vars

(* ----------------------------- 8-bit controls -------------------------- *)
\* a control sent as its 8-bit C1 byte, and what follows it, next to the same
\* sent with the two bytes ESC and a letter: CSI 31 m, IND, NEL, RI, an OSC,
\* an APC and a DCS string
C1Controls ==
    <<[c1 |-> 155, esc |-> Ch.lbracket, rest |-> Itoa(31) \o <<109>>],
      [c1 |-> 132, esc |-> 68, rest |-> <<>>],
      [c1 |-> 133, esc |-> 69, rest |-> <<>>],
      [c1 |-> 141, esc |-> 77, rest |-> <<>>],
      [c1 |-> 157, esc |-> Ch.rbracket,
       rest |-> Itoa(0) \o <<Ch.semi, 120, asciiBell>>],
      [c1 |-> 159, esc |-> Ch.underscore,
       rest |-> <<97, 120, asciiEscape, Ch.backslash>>],
      [c1 |-> 144, esc |-> 80,
       rest |-> tmuxPrefix \o <<88, asciiEscape, Ch.backslash>>]>>

\* the control as the single byte
C1Control ==
    CanRead /\ \E k \in 1..Len(C1Controls) :
        Feed("C1", k, 0, <<C1Controls[k].c1>> \o C1Controls[k].rest)

\* the control as the UTF-8 encoding of the code point U+0080..U+009F
C1ControlEncoded ==
    CanRead /\ \E k \in 1..Len(C1Controls) :
        Feed("C1-UTF8", k, 0, EncodeRune(C1Controls[k].c1) \o C1Controls[k].rest)

NextC1 == PrintText \/ CursorPosition \/ LineFeed \/ C1Control \/ C1ControlEncoded

SpecC1 == Init /\ [][NextC1]_vars

(* --------------------------------- mouse ------------------------------- *)
KeyModifiers == {"shift", "alt", "control"}

\* the button byte of encodeMouse: 3 for button 0, then the modifier bits
MouseButtonByte(button, mods) ==
    ((IF button = 0 THEN 3 ELSE (button - 1) % 256)
     + (IF "shift" \in mods THEN 4 ELSE 0)
     + (IF "alt" \in mods THEN 8 ELSE 0)
     + (IF "control" \in mods THEN 16 ELSE 0)) % 256

\* encodeMouse: p is the cell getTermPosition found, 1-based; the SGR form
\* adds the modifier bits to the button byte that already holds them
encodeMouse(t, button, mods, p) ==
    IF t.mouseSGR
    THEN <<asciiEscape, Ch.lbracket, 60>>
         \o Itoa(MouseButtonByte(button, mods)
                 + (IF "shift" \in mods THEN 4 ELSE 0)
                 + (IF "alt" \in mods THEN 8 ELSE 0)
                 + (IF "control" \in mods THEN 16 ELSE 0))
         \o <<Ch.semi>> \o Itoa(p.Col) \o <<Ch.semi>> \o Itoa(p.Row)
         \o <<IF button = 0 THEN 109 ELSE 77>>
    ELSE <<asciiEscape, Ch.lbracket, 77, (32 + MouseButtonByte(button, mods)) % 256,
           (32 + p.Col) % 256, (32 + p.Row) % 256>>

handleMouseDownV200(t, btn, mods, p) == Write(t, encodeMouse(t, btn, mods, p))

handleMouseDownX10(t, btn, mods, p) == Write(t, encodeMouse(t, btn, {}, p))

handleMouseUpV200(t, btn, mods, p) == Write(t, encodeMouse(t, 0, mods, p))

handleMouseUpX10(t, btn, mods, p) == t

\* MouseDown: button 1 is the primary and 2 the secondary button (whose
\* paste finds the clipboard empty); t.mouse stands for t.onMouseDown
MouseDown(t, button, mods, p) ==
    IF t.mouse = "off" THEN t
    ELSE IF t.mouse = "X10" THEN handleMouseDownX10(t, button, mods, p)
    ELSE handleMouseDownV200(t, button, mods, p)

MouseUp(t, button, mods, p) ==
    IF t.mouse = "off" THEN t
    ELSE IF t.mouse = "X10" THEN handleMouseUpX10(t, button, mods, p)
    ELSE handleMouseUpV200(t, button, mods, p)

\* a mouse event of the window: the button, the modifier keys held and the
\* cell under the pointer
MouseEvent(op, button, mods, col, row, t1) ==
    /\ term' = t1
    /\ prev' = Snapshot(term)
    /\ lastIn' = [op |-> op, n |-> button, m |-> 0, mods |-> mods,
                  col |-> col, row |-> row]
    /\ steps' = steps + 1
    /\ UNCHANGED <<leftOver, pending, fed>>

MousePress ==
    CanRead /\ \E button \in 1..2, mods \in SUBSET KeyModifiers,
                  col \in {1, term.Columns}, row \in {1, term.Rows} :
        MouseEvent("press", button, mods, col, row,
                   MouseDown(term, button, mods, [Col |-> col, Row |-> row]))

MouseRelease ==
    CanRead /\ \E button \in 1..2, mods \in SUBSET KeyModifiers,
                  col \in {1, term.Columns}, row \in {1, term.Rows} :
        MouseEvent("release", button, mods, col, row,
                   MouseUp(term, button, mods, [Col |-> col, Row |-> row]))

\* CSI ? 9 h, CSI ? 1000 h, CSI ? 1006 h
MouseTrackingX10 == CanRead /\ Feed("9h", 0, 0, CSI(<<Ch.question>> \o Itoa(9), 104))

MouseTracking == CanRead /\ Feed("1000h", 0, 0, CSI(<<Ch.question>> \o Itoa(1000), 104))

MouseSGR == CanRead /\ Feed("1006h", 0, 0, CSI(<<Ch.question>> \o Itoa(1006), 104))

NextMouse ==
    MouseTrackingX10 \/ MouseTracking \/ MouseSGR \/ MousePress \/ MouseRelease

SpecMouse == Init /\ [][NextMouse]_vars

(* ------------------------- listeners and resizing ---------------------- *)
MaxListeners == 2

\* make(chan Config, cap): nothing queued, no receiver blocked on it, and
\* nothing received from it yet
NewChan(cap) == [cap |-> cap, buf |-> <<>>, waiting |-> FALSE, received |-> <<>>]

AddListener(t, listener) == [t EXCEPT !.listeners = Append(t.listeners, listener)]

\* <-l in the goroutine that owns the listener: it takes the Config at the
\* head of the buffer, or blocks until one is sent
Receive(l) ==
    IF Len(l.buf) > 0
    THEN [l EXCEPT !.buf = Tail(l.buf), !.received = Append(l.received, Head(l.buf))]
    ELSE [l EXCEPT !.waiting = TRUE]

\* Resize, from the lock to the early returns: rows and cols are the grid
\* that fits the new size, each at least 1, and samePixel tells whether the
\* widget already has that size
ResizeBegin(t, rows, cols, samePixel) ==
    IF t.fixedPTY THEN t
    ELSE IF t.Columns = cols /\ t.Rows = rows /\ samePixel THEN t
    ELSE [t EXCEPT !.resizeTask =
              [pc |-> "locked", rows |-> rows, cols |-> cols, oldRows |-> t.Rows,
               sameGrid |-> (t.Columns = cols /\ t.Rows = rows)]]

\* oldRows := int(t.config.Rows); t.config.Columns, t.config.Rows = cols, rows
ResizeGrid(t) ==
    [t EXCEPT !.Rows = t.resizeTask.rows, !.Columns = t.resizeTask.cols,
              !.resizeTask.oldRows = t.Rows, !.resizeTask.pc = "half"]

\* the scrollBottom update, onConfigure on a new grid, and the unlock
ResizeEnd(t) ==
    LET t1 == [t EXCEPT !.scrollBottom =
                   IF t.scrollBottom = 0 \/ t.scrollBottom = t.resizeTask.oldRows - 1
                   THEN t.Rows - 1 ELSE t.scrollBottom,
                        !.resizeTask.pc = "idle"]
    IN  IF t.resizeTask.sameGrid THEN t1 ELSE onConfigure(t1)

Resize(t, rows, cols, samePixel) ==
    IF ResizeBegin(t, rows, cols, samePixel).resizeTask.pc = "idle" THEN t
    ELSE ResizeEnd(ResizeGrid(ResizeBegin(t, rows, cols, samePixel)))

EnableFixedPTYSize(t, rows, cols) ==
    IF rows = 0 \/ cols = 0 THEN t
    ELSE [t EXCEPT !.fixedPTY = TRUE, !.Rows = rows, !.Columns = cols,
                   !.scrollBottom = IF t.scrollBottom = 0 \/ t.scrollBottom >= rows
                                    THEN rows - 1 ELSE t.scrollBottom]

\* a call that takes two inputs
Call2(op, n, m, t1) ==
    /\ term' = t1
    /\ prev' = Snapshot(term)
    /\ lastIn' = In(op, n, m)
    /\ steps' = steps + 1
    /\ UNCHANGED <<leftOver, pending, fed>>

RegisterListener ==
    /\ CanRead /\ Len(term.listeners) < MaxListeners
    /\ \E cap \in 0..1 : Call("listen", cap, AddListener(term, NewChan(cap)))

ListenerReceives ==
    /\ CanRead
    /\ \E i \in DOMAIN term.listeners :
          /\ ~term.listeners[i].waiting
          /\ Call("receive", i, [term EXCEPT !.listeners[i] = Receive(term.listeners[i])])

\* the titles programs set: OSC 0 ; title BEL and OSC 2 ; title BEL
Titles == <<<<97>>, <<98>>>>

SetTitle ==
    /\ CanRead
    /\ \E cmd \in {0, 2}, k \in DOMAIN Titles :
          Feed("title", cmd, k, <<asciiEscape, Ch.rbracket>> \o Itoa(cmd) \o <<Ch.semi>>
                                \o Titles[k] \o <<asciiBell>>)

ResizeWindow ==
    /\ CanRead
    /\ \E rows \in 1..MaxRows, cols \in 1..MaxCols, samePixel \in BOOLEAN :
          Call2("resize", rows, cols, Resize(term, rows, cols, samePixel))

FixedPTYSize ==
    /\ CanRead
    /\ \E rows \in 0..MaxRows, cols \in 1..MaxCols :
          Call2("fixed", rows, cols, EnableFixedPTYSize(term, rows, cols))

NextConfig == RegisterListener \/ ListenerReceives \/ SetTitle \/ ResizeWindow

SpecConfig == Init /\ [][NextConfig]_vars

NextResize ==
    PrintText \/ LineFeed \/ SetScrollArea \/ ResizeWindow \/ FixedPTYSize

SpecResize == Init /\ [][NextResize]_vars

\* Resize on the UI goroutine, one step at a time, beside the reader
ResizeLocks ==
    /\ CanRead /\ term.resizeTask.pc = "idle"
    /\ \E rows \in 1..MaxRows, cols \in 1..MaxCols, samePixel \in BOOLEAN :
          Call2("resize-lock", rows, cols, ResizeBegin(term, rows, cols, samePixel))

ResizeSetsGrid ==
    /\ Running /\ term.resizeTask.pc = "locked"
    /\ Call2("resize-grid", term.resizeTask.rows, term.resizeTask.cols, ResizeGrid(term))

ResizeSetsScrollBottom ==
    /\ Running /\ term.resizeTask.pc = "half"
    /\ Call2("resize-end", term.resizeTask.rows, term.resizeTask.cols, ResizeEnd(term))

NextResizeRace ==
    PrintText \/ LineFeed \/ ResizeLocks \/ ResizeSetsGrid \/ ResizeSetsScrollBottom

SpecResizeRace == Init /\ [][NextResizeRace]_vars

(* -------------------------------- teardown ----------------------------- *)
\* Cleanup, statement by statement: the flag, the listeners, the grid
CleanupFlag(t) == [t EXCEPT !.cleaningUp = TRUE, !.cleanupTask = "flagged"]

CleanupListeners(t) == [t EXCEPT !.listeners = <<>>, !.cleanupTask = "closed"]

CleanupContent(t) == [t EXCEPT !.contentNil = TRUE, !.cleanupTask = "done"]

\* handleOutput of printable characters when t.content is nil:
\* handleOutputChar reads t.content.Rows and the goroutine panics
runOnContent(t, lo, chunk) ==
    IF t.contentNil /\ Len(lo \o chunk) > 0
    THEN [t |-> [t EXCEPT !.panicked = TRUE], leftOver |-> lo]
    ELSE run(t, lo, chunk)

\* a step of one of the two goroutines
Step(op, n, t1) ==
    /\ term' = t1
    /\ prev' = Snapshot(term)
    /\ lastIn' = In(op, n, 0)
    /\ UNCHANGED <<leftOver, pending, fed, steps>>

\* what the shell prints while the terminal is torn down
TeardownOutput == Text(2)

InitCleanup ==
    /\ \E rows \in 1..MaxRows, cols \in Widths : term = NewTerminal(rows, cols)
    /\ leftOver = <<>>
    /\ pending = TeardownOutput
    /\ fed = <<>>
    /\ prev = Snapshot(term)
    /\ lastIn = In("none", 0, 0)
    /\ steps = 0

\* if t.cleaningUp { return } at the top of the loop of run; cleaningUp is
\* a plain bool written by Cleanup on another goroutine, so once it is set
\* the reader may see the new value or the old one
RunChecksFlag ==
    /\ Running /\ term.readerTask.pc = "top"
    /\ \E seen \in (IF term.cleaningUp THEN BOOLEAN ELSE {FALSE}) :
          Step("check", 0, [term EXCEPT !.readerTask.pc =
                                IF seen THEN "returned" ELSE "reading"])

\* num, err := t.out.Read(buf): the first k bytes the pty holds
RunReads ==
    /\ Running /\ term.readerTask.pc = "reading"
    /\ \E k \in 1..Len(pending) :
          /\ term' = [term EXCEPT !.readerTask = [pc |-> "guard", buf |-> SubSeq(pending, 1, k)]]
          /\ pending' = SubSeq(pending, k + 1, Len(pending))
          /\ fed' = fed \o SubSeq(pending, 1, k)
          /\ lastIn' = In("read", k, 0)
    /\ prev' = Snapshot(term)
    /\ UNCHANGED <<leftOver, steps>>

\* if t.content == nil || t.cleaningUp { return }
RunGuards ==
    /\ Running /\ term.readerTask.pc = "guard"
    /\ \E seen \in (IF term.cleaningUp THEN BOOLEAN ELSE {FALSE}),
          nil \in (IF term.contentNil THEN BOOLEAN ELSE {FALSE}) :
          Step("guard", 0, [term EXCEPT !.readerTask.pc =
                                IF seen \/ nil THEN "returned" ELSE "handling"])

\* leftOver = t.handleOutput(fullBuf[:num])
RunHandles ==
    /\ Running /\ term.readerTask.pc = "handling"
    /\ \E out \in {runOnContent(term, leftOver, term.readerTask.buf)} :
          /\ term' = [out.t EXCEPT !.readerTask = [pc |-> "top", buf |-> <<>>]]
          /\ leftOver' = out.leftOver
    /\ prev' = Snapshot(term)
    /\ lastIn' = In("handle", Len(term.readerTask.buf), 0)
    /\ UNCHANGED <<pending, fed, steps>>

CleanupSetsFlag ==
    Running /\ term.cleanupTask = "idle" /\ Step("cleanup-flag", 0, CleanupFlag(term))

CleanupClosesListeners ==
    Running /\ term.cleanupTask = "flagged"
            /\ Step("cleanup-listeners", 0, CleanupListeners(term))

CleanupDropsContent ==
    Running /\ term.cleanupTask = "closed"
            /\ Step("cleanup-content", 0, CleanupContent(term))

NextCleanup ==
    \/ RunChecksFlag \/ RunReads \/ RunGuards \/ RunHandles
    \/ CleanupSetsFlag \/ CleanupClosesListeners \/ CleanupDropsContent

SpecCleanup == InitCleanup /\ [][NextCleanup]_vars

(* ------------------------------- scrolling ----------------------------- *)
\* the tallest grid of the scrolling runs: a region of two rows then has a
\* row outside it
ScrollRows == MaxRows + 1

InitScroll ==
    /\ \E rows \in 1..ScrollRows, cols \in {1, MaxCols} : term = NewTerminal(rows, cols)
    /\ leftOver = <<>>
    /\ pending = <<>>
    /\ fed = <<>>
    /\ prev = Snapshot(term)
    /\ lastIn = In("none", 0, 0)
    /\ steps = 0

RECURSIVE FillRows(_)
\* CSI r ; 1 H and one letter for each of the first n rows: a, b, c, ...
FillRows(n) ==
    IF n = 0 THEN <<>> ELSE FillRows(n - 1) \o CSI2(n, 1, 72) \o <<96 + n>>

\* one read that writes a letter on every row, sets the margins with
\* CSI top ; bottom r and puts the cursor on a row with CSI row ; 1 H
PrepareRegion ==
    /\ CanRead /\ lastIn.op = "none"
    /\ \E top \in 1..term.Rows, bottom \in 0..(term.Rows + 1), row \in 1..term.Rows :
          Feed("region", top, bottom,
               FillRows(term.Rows) \o CSI2(top, bottom, 114) \o CSI2(row, 1, 72))

\* CSI n S
ScrollUp == CanRead /\ \E n \in 1..(MaxParam + 1) : Feed("SU", n, 0, CSI(Itoa(n), 83))

\* CSI n T
ScrollDown == CanRead /\ \E n \in 1..(MaxParam + 1) : Feed("SD", n, 0, CSI(Itoa(n), 84))

NextScroll == PrepareRegion \/ PrintText \/ LineFeed \/ ScrollUp \/ ScrollDown

SpecScroll == InitScroll /\ [][NextScroll]_vars

(* ----------------------------- inserted lines -------------------------- *)
\* CSI n L
InsertLines == CanRead /\ \E n \in 1..(MaxParam + 1) : Feed("IL", n, 0, CSI(Itoa(n), 76))

NextLines == PrepareRegion \/ PrintText \/ LineFeed \/ InsertLines

SpecLines == InitScroll /\ [][NextLines]_vars

(* ------------------------------ origin mode ---------------------------- *)
\* CSI ? 6 h
OriginModeOn == CanRead /\ Feed("6h", 0, 0, CSI(<<Ch.question>> \o Itoa(6), 104))

NextOrigin == PrepareRegion \/ OriginModeOn \/ CursorPosition \/ CursorRow

SpecOrigin == InitScroll /\ [][NextOrigin]_vars

(* ------------------------------ erase in line -------------------------- *)
\* CSI 0 K, CSI 1 K, CSI 2 K
EraseInLine == CanRead /\ \E mode \in 0..2 : Feed("EL", mode, 0, CSI(Itoa(mode), 75))

NextErase == PrintText \/ CursorPosition \/ SelectGraphics \/ EraseInLine

SpecErase == Init /\ [][NextErase]_vars

(* -------------------------- alternate screen use ----------------------- *)
PrivateSet(mode) == CSI(<<Ch.question>> \o Itoa(mode), 104)

PrivateReset(mode) == CSI(<<Ch.question>> \o Itoa(mode), 108)

\* what a program does on the alternate screen: nothing, move the cursor,
\* move it and save it with CSI ? 1048 h, move it and enter again with
\* CSI ? 1049 h or CSI ? 47 h
AltActivity ==
    << <<>>,
       CSI2(2, 2, 72),
       CSI2(2, 2, 72) \o PrivateSet(1048),
       CSI2(2, 2, 72) \o PrivateSet(1049),
       CSI2(2, 2, 72) \o PrivateSet(47) >>

\* one read that enters the alternate screen, uses it and leaves it
AltScreenSession ==
    /\ CanRead
    /\ \E k \in DOMAIN AltActivity, mode \in {47, 1049} :
          Feed("ALT-USE", k, mode, PrivateSet(mode) \o AltActivity[k] \o PrivateReset(mode))

\* CSI ? 47 l, CSI ? 1049 l
AltScreenLeave ==
    CanRead /\ \E mode \in {47, 1049} : Feed("ALT-LEAVE", mode, 0, PrivateReset(mode))

NextAlt == PrintText \/ CursorPosition \/ AltScreenSession \/ AltScreenLeave

SpecAlt == Init /\ [][NextAlt]_vars

(* ------------------------------ long chunks ---------------------------- *)
\* a byte that is no UTF-8: the loop of handleOutput steps over it
InvalidByte == 255

\* the offsets at which a chunk holds its printable byte: the start, and
\* the offsets around the value of noEscape
LongOffsets == {1, noEscape, noEscape + 1, noEscape + 2}

\* handleOutput on a chunk of n bytes that are no UTF-8 followed by `rest':
\* outside printer mode the loop steps over each of the n bytes with
\* `continue', the terminal as it is and i one further, so that it reaches
\* `rest' with i = n - 1
handleOutputSkipping(t, n, rest) ==
    IF t.state.printing THEN handleOutput(t, Repeat(InvalidByte, n) \o rest)
    ELSE handleOutputLoop(t, rest, n - 1)

\* one read of n bytes the interpreter skips and the letter 'a' at offset n
LongChunk ==
    /\ CanRead /\ leftOver = <<>>
    /\ \E n \in LongOffsets :
          /\ term' = handleOutputSkipping(term, n, <<97>>)
          /\ lastIn' = In("LONG", n, 0)
    /\ leftOver' = handleOutputLeftOver(<<97>>)
    /\ prev' = Snapshot(term)
    /\ steps' = steps + 1
    /\ UNCHANGED <<pending, fed>>

NextLong == PrintText \/ CursorPosition \/ LongChunk

SpecLong == Init /\ [][NextLong]_vars

(* --------------------------- string introducers ------------------------ *)
\* the pieces of a stream of control strings, each read on its own: ESC ],
\* ESC _, ESC P, a payload byte, ESC \ and BEL
ParserTokens ==
    << <<asciiEscape, Ch.rbracket>>, <<asciiEscape, Ch.underscore>>, <<asciiEscape, 80>>,
       <<120>>, <<asciiEscape, Ch.backslash>>, <<asciiBell>> >>

ParserToken ==
    CanRead /\ \E k \in DOMAIN ParserTokens : Feed("token", k, 0, ParserTokens[k])

NextParser == ParserToken \/ PrintText \/ RegisterOSC \/ RegisterAPC

SpecParser == Init /\ [][NextParser]_vars

(* --------------------------- interrupted CSI --------------------------- *)
\* one read of ESC [ 2, cut short by the ESC of a whole CSI row ; col H
InterruptedCSI ==
    /\ CanRead
    /\ \E r \in 1..MaxParam, c \in 1..MaxParam :
          Feed("CSI-AGAIN", r, c, <<asciiEscape, Ch.lbracket, 50>> \o CSI2(r, c, 72))

NextCSI == PrintText \/ CursorPosition \/ InterruptedCSI \/ C1ControlEncoded

SpecCSI == Init /\ [][NextCSI]_vars

(* ------------------------------- full reset ---------------------------- *)
\* the private modes a program sets before the reset
ResetModes == {1, 6, 25, 1000, 1006, 1049, 2004}

\* CSI ? mode h
PrivateModeSet ==
    CanRead /\ \E mode \in ResetModes : Feed("DECSET", mode, 0, PrivateSet(mode))

NextReset ==
    PrintText \/ SelectGraphics \/ AutowrapOff \/ NewLineModeOn \/ PrivateModeSet \/ Reset

SpecReset == Init /\ [][NextReset]_vars

(* ------------------------------- the claims ---------------------------- *)
\* C1: whatever bytes handleOutput is fed on a terminal of at least one row
\* and one column, no interpreter step indexes a row that is not there or
\* slices a row past its cells, so the reader never panics; CSI n P and
\* CSI n @ after a cursor move to an empty or short row included.
C1_NoOutOfBoundsAccess == ~term.panicked

\* C2: once a read is fully consumed the cursor is inside the grid,
\* 0 <= cursorRow < Rows and 0 <= cursorCol <= Columns, and it stands at
\* column Columns only with a wrap pending; ESC 7 / ESC 8 around a pending
\* wrap included.
C2_CursorInGrid ==
    Running =>
        /\ 0 <= term.cursorRow /\ term.cursorRow < term.Rows
        /\ 0 <= term.cursorCol /\ term.cursorCol <= term.Columns
        /\ (term.cursorCol = term.Columns => term.wrapPending)

\* C3: the scroll region is always a range of rows of the grid,
\* 0 <= scrollTop <= scrollBottom <= Rows-1, whatever parameters CSI t;b r
\* carries, and after a reset.
C3_ScrollRegionInGrid ==
    Running =>
        /\ 0 <= term.scrollTop
        /\ term.scrollTop <= term.scrollBottom
        /\ term.scrollBottom <= term.Rows - 1

\* C4: no row of the grid ever holds more than Columns cells, whatever is
\* printed, inserted (CSI n @), erased or restored.
C4_RowsWithinColumns ==
    Running => \A i \in 1..Len(term.content) :
                   Len(term.content[i].Cells) <= term.Columns

\* the grid, cursor, modes and writer output: all of the terminal but the
\* position of the parser
View(t) == [t EXCEPT !.state = GroundState]

IsASCII(s) == \A i \in 1..Len(s) : s[i] < 128

\* C5: a stream of ASCII text and escape sequences read in two pieces, at any
\* split point, leaves the same grid, cursor, modes and writer output as the
\* same stream read in one piece.
C5_ChunkBoundaryIndependence ==
    (steps = 2 /\ pending = <<>> /\ IsASCII(fed)) =>
        View(term) = View(run(NewTerminal(term.Rows, term.Columns), <<>>, fed).t)

\* the three bytes of the euro sign U+20AC
EuroBytes == <<226, 130, 172>>

\* C6: an incomplete UTF-8 sequence at the end of a read is handed back as
\* leftover and kept for the next read, so a 3-byte code point split over
\* two reads ends as exactly one cell holding that code point.
C6_SplitCodePointKept ==
    /\ (steps = 1 /\ fed \in {SubSeq(EuroBytes, 1, 1), SubSeq(EuroBytes, 1, 2)}
            /\ pending = SubSeq(EuroBytes, Len(fed) + 1, 3))
        => leftOver = fed
    /\ (fed = EuroBytes /\ pending = <<>>)
        => /\ Len(Row(term, 0).Cells) = 1
           /\ Row(term, 0).Cells[1].Rune = 8364

\* the runes of the cells of row i
Runes(t, i) == [k \in 1..Len(Row(t, i).Cells) |-> Row(t, i).Cells[k].Rune]

\* the last read printed n characters with autowrap on, starting at column 0
\* of a row without cells above the bottom margin
PrintedOnFreshRow(n) ==
    /\ Running
    /\ lastIn.op = "text" /\ lastIn.n = n
    /\ prev.wrapAround /\ prev.cursorCol = 0 /\ prev.fresh
    /\ prev.cursorRow < prev.scrollBottom

\* C7: with autowrap on, Columns characters printed from column 0 of a fresh
\* row r above the bottom margin all stay on row r, with the wrap pending
\* and no line advance; one character more wraps once, lands at (r+1, 0)
\* and leaves the cursor at (r+1, 1).
C7_DeferredWrap ==
    /\ PrintedOnFreshRow(term.Columns) =>
        /\ term.cursorRow = prev.cursorRow
        /\ term.wrapPending
        /\ Runes(term, prev.cursorRow) = Text(term.Columns)
    /\ PrintedOnFreshRow(term.Columns + 1) =>
        /\ Runes(term, prev.cursorRow) = Text(term.Columns)
        /\ term.cursorRow = prev.cursorRow + 1
        /\ term.cursorCol = 1
        /\ Len(Row(term, prev.cursorRow + 1).Cells) >= 1
        /\ Row(term, prev.cursorRow + 1).Cells[1].Rune = 96 + term.Columns + 1

\* the explicit cursor movements
Movements == {"CUP", "CUU", "CUD", "CUF", "CUB", "CHA", "VPA", "CR", "BS",
              "CSIu", "1048l", "ESC8"}

\* C8: every explicit cursor movement (CUP, CUU/CUD/CUF/CUB, CHA, VPA, CR,
\* BS, CSI u, CSI ? 1048 l, ESC 8) clears the pending wrap.
C8_MovementClearsWrapPending ==
    (Running /\ lastIn.op \in Movements) => ~term.wrapPending

\* C9: one HT byte is always processed to the end, and leaves the cursor at
\* the next multiple of 8.
C9_TabTerminates ==
    lastIn.op = "HT" =>
        /\ ~term.hung
        /\ term.cursorCol = prev.cursorCol - (prev.cursorCol % tabWidth) + tabWidth

\* what the last read added to the writer
Reply == SubSeq(term.written, Len(prev.written) + 1, Len(term.written))

\* the two numbers of a reply ESC [ r ; c R, <<0, 0>> for anything else
ParseReport(b) ==
    IF Len(b) >= 6 /\ b[1] = asciiEscape /\ b[2] = Ch.lbracket /\ b[Len(b)] = 82
       /\ Len(Split(SubSeq(b, 3, Len(b) - 1), Ch.semi)) = 2
       /\ \A p \in {1, 2} :
            /\ Split(SubSeq(b, 3, Len(b) - 1), Ch.semi)[p] # <<>>
            /\ AllDigits(Split(SubSeq(b, 3, Len(b) - 1), Ch.semi)[p])
    THEN <<Atoi(Split(SubSeq(b, 3, Len(b) - 1), Ch.semi)[1]),
           Atoi(Split(SubSeq(b, 3, Len(b) - 1), Ch.semi)[2])>>
    ELSE <<0, 0>>

\* C10: CSI 6 n, read while the parser is between sequences, adds exactly
\* one reply ESC [ r ; c R to the writer, with r = cursorRow+1 and
\* c = cursorCol+1 for the cursor as it was when the query arrived, and
\* leaves the cursor there.
C10_CursorPositionReport ==
    (lastIn.op = "DSR" /\ prev.ground) =>
        /\ SubSeq(term.written, 1, Len(prev.written)) = prev.written
        /\ ParseReport(Reply) = <<prev.cursorRow + 1, prev.cursorCol + 1>>
        /\ term.cursorRow = prev.cursorRow /\ term.cursorCol = prev.cursorCol

\* C10 witness: the cursor was saved at (2, 2) by ESC 7 and stands there,
\* and the last read was a query answered ESC [ 2 ; 2 R
C10_Witness ==
    /\ lastIn.op = "DSR"
    /\ term.savedRow = 1 /\ term.savedCol = 1
    /\ term.cursorRow = 1 /\ term.cursorCol = 1
    /\ Reply = <<asciiEscape, Ch.lbracket, 50, Ch.semi, 50, 82>>

\* C11: a primary Device Attributes query, CSI c or CSI 0 c, is answered
\* ESC [ ? 6 c on the writer, and a secondary one, CSI > c, is answered
\* ESC [ > 0 ; 115 ; 0 c.
C11_DeviceAttributesReply ==
    lastIn.op = "DA" =>
        Reply = IF DAParams[lastIn.n] = <<Ch.gt>>
                THEN <<asciiEscape, Ch.lbracket, Ch.gt, 48, Ch.semi, 49, 49, 53,
                       Ch.semi, 48, 99>>
                ELSE <<asciiEscape, Ch.lbracket, Ch.question, 54, 99>>

\* the attribute state: bold, underline, blink, foreground, background
Attributes(t) == <<t.bold, t.underlined, t.blinking, t.currentFG, t.currentBG>>

\* C12: SGR parameters are applied left to right, so CSI 0 ; X m leaves the
\* attributes that CSI 0 m followed by CSI X m leaves, whatever they were
\* before.
C12_LeadingZeroResets ==
    lastIn.op = "SGR0" =>
        Attributes(term) =
            Attributes(handleOutput(handleOutput(prev.all, CSI(<<Ch.zero>>, 109)),
                                    CSI(Itoa(lastIn.n), 109)))

\* the cells of the rows of the grid
GridCells(t) == [i \in 1..Len(t.content) |-> t.content[i].Cells]

\* C13: from the main screen, CSI ? 1049 h, then prints, cursor moves and
\* erases, then CSI ? 1049 l give back the rows of the grid cell for cell
\* and the cursor position as they were just before the CSI ? 1049 h.
C13_AlternateScreenRoundTrip ==
    (lastIn.op = "ALT" /\ ~prev.all.hasSavedRows) =>
        /\ GridCells(term) = GridCells(prev.all)
        /\ term.cursorRow = prev.cursorRow
        /\ term.cursorCol = prev.cursorCol

\* C14: RIS is idempotent: ESC c applied to the terminal an ESC c has just
\* reset leaves every part of it as it is (grid, cursor, modes, attributes,
\* scroll region, saved screen).
C14_ResetIdempotent ==
    (Running /\ lastIn.op = "RIS") => handleOutput(term, ESC(99)) = term

\* C14 witness: ESC c arrived on a terminal with cells on the cursor's row,
\* the cursor away from column 0 and bold or autowrap changed
C14_Witness ==
    /\ Running /\ lastIn.op = "RIS"
    /\ ~prev.fresh /\ prev.cursorCol > 0
    /\ (prev.all.bold \/ ~prev.wrapAround)
    /\ term.cursorCol = 0 /\ ~term.bold /\ term.wrapAround

\* C15: DECSTR, CSI ! p, turns autowrap on and bold, origin mode, the hidden
\* cursor and the G1 charset off, sets the scroll region to the whole grid
\* and the cursor to (0, 0), and leaves the contents of the grid alone.
C15_SoftReset ==
    lastIn.op = "DECSTR" =>
        /\ term.wrapAround /\ ~term.bold /\ ~term.originMode
        /\ ~term.cursorHidden /\ ~term.useG1CharSet
        /\ term.scrollTop = 0 /\ term.scrollBottom = term.Rows - 1
        /\ term.cursorRow = 0 /\ term.cursorCol = 0
        /\ GridCells(term) = GridCells(prev.all)

\* the cells of row i (0-based) of the grid, none for a row not there yet
CellsAt(t, i) == IF i < Len(t.content) THEN t.content[i + 1].Cells ELSE <<>>

IsBlank(cells) == \A k \in 1..Len(cells) : cells[k].Rune \in {0, Ch.SP}

\* C16: CSI n M with the cursor on row r deletes n lines there: each row
\* from r down to n above the bottom margin takes the cells of the row n
\* below it, and the last n rows of the scroll region are blank.
C16_DeleteLines ==
    (lastIn.op = "DL" /\ prev.scrollTop <= prev.cursorRow
        /\ prev.cursorRow <= prev.scrollBottom /\ prev.scrollBottom < term.Rows) =>
        \A i \in prev.cursorRow..prev.scrollBottom :
            IF i + lastIn.n <= prev.scrollBottom
            THEN CellsAt(term, i) = CellsAt(prev.all, i + lastIn.n)
            ELSE IsBlank(CellsAt(term, i))

\* C17: a line feed (LF, VT or FF) leaves the cursor at column 0 when
\* newLineMode is on and at the column it had when newLineMode is off;
\* CSI 20 h turns newLineMode on and CSI 20 l turns it off.
C17_LineFeedColumn ==
    /\ (Running /\ lastIn.op = "LF") =>
           term.cursorCol = IF prev.all.newLineMode THEN 0 ELSE prev.cursorCol
    /\ lastIn.op = "20h" => term.newLineMode
    /\ lastIn.op = "20l" => ~term.newLineMode

\* C18: with a handler registered for the OSC command n, OSC n ; data calls
\* that handler once, with everything after the first ';' as its data, and
\* the built-in behaviour of n is not performed: the title is left as it is.
C18_RegisteredOSCHandler ==
    (lastIn.op = "OSC" /\ lastIn.n \in prev.all.oscHandlers) =>
        /\ term.oscCalls = Append(prev.all.oscCalls, <<lastIn.n, OSCData[lastIn.m]>>)
        /\ term.Title = prev.all.Title

\* C18 witness: a handler is registered for command 0, and OSC 0 ; x;y has
\* called it with x;y, the title still empty
C18_Witness ==
    /\ lastIn.op = "OSC" /\ lastIn.n = 0 /\ 0 \in prev.all.oscHandlers
    /\ term.oscCalls = <<<<0, <<120, Ch.semi, 121>>>>>>
    /\ term.Title = <<>>

\* the registered prefixes that match the payload
MatchingPrefixes(t, code) == {p \in t.apcHandlers : HasPrefix(code, p)}

LongestOf(S) == CHOOSE p \in S : \A q \in S : Len(q) <= Len(p)

\* C19: an APC string whose payload starts with a registered prefix calls
\* exactly one handler, the one of the longest registered prefix the payload
\* starts with, with the rest of the payload as its argument, whatever the
\* order of registration and of iteration.
C19_LongestPrefixHandler ==
    (lastIn.op = "APC" /\ MatchingPrefixes(prev.all, APCPayloads[lastIn.n]) # {}) =>
        term.apcCalls =
            Append(prev.all.apcCalls,
                   <<LongestOf(MatchingPrefixes(prev.all, APCPayloads[lastIn.n])),
                     SubSeq(APCPayloads[lastIn.n],
                            Len(LongestOf(MatchingPrefixes(prev.all,
                                                           APCPayloads[lastIn.n]))) + 1,
                            Len(APCPayloads[lastIn.n]))>>)

\* C20: the payload of a DCS string after tmux; or screen; is interpreted as
\* terminal output from the ground state, escape sequences included: on a
\* fresh grid ESC P tmux; X ESC \ leaves one cell holding X, and
\* ESC P tmux; ESC [ 31 m X ESC \ leaves one cell holding X with the
\* foreground Indexed(1).
C20_Passthrough ==
    (lastIn.op = "DCS" /\ prev.all = NewTerminal(term.Rows, term.Columns)) =>
        /\ Len(CellsAt(term, 0)) = 1
        /\ CellsAt(term, 0)[1].Rune = 88
        /\ lastIn.m = 2 => CellsAt(term, 0)[1].Style.FG = getBasicColor(1)
        /\ term.state = GroundState

\* all the bytes of the stream: those read and those the pty still holds
WholeStream == fed \o pending

\* the payload of the stream of a print job: all but the exit sequence and
\* the character after it
PrintPayload ==
    SubSeq(WholeStream, 1, Len(WholeStream) - Len(printEnd) - Len(AfterPrint))

\* C21: after CSI 5 i the bytes up to the exit sequence ESC [ 4 i are
\* collected as they are, bytes that are no UTF-8 included, and once the exit
\* sequence has been read the printer has received exactly those bytes,
\* once, without the exit sequence, however the reads cut the payload and
\* the exit sequence; the parser is then back in normal mode and prints the
\* character that follows.
C21_PrinterMode ==
    (lastIn.op = "read") =>
        /\ term.printed \in {<<>>, <<PrintPayload>>}
        /\ term.printed # <<>> => Len(fed) >= Len(PrintPayload) + Len(printEnd)
        /\ Len(fed) >= Len(PrintPayload) + Len(printEnd) =>
            /\ term.printed = <<PrintPayload>>
            /\ ~term.state.printing
        /\ pending = <<>> =>
            /\ term.state = GroundState
            /\ Runes(term, 0) = AfterPrint

\* C21 witness: the payload ESC [ 4 and the exit sequence came in three
\* reads, the second one ending inside the exit sequence, and the printer
\* received ESC [ 4
C21_Witness ==
    /\ lastIn.op = "read" /\ steps = 3 /\ pending = <<>>
    /\ fed = <<asciiEscape, Ch.lbracket, 52>> \o printEnd \o AfterPrint
    /\ prev.all.state.printing
    /\ Len(prev.all.printData) = 5
    /\ term.printed = <<<<asciiEscape, Ch.lbracket, 52>>>>

\* the last read called the OSC handling with the data of the string: the
\* registered handler, or the built-in title of command 0
OSCHandled ==
    IF lastIn.n \in prev.all.oscHandlers
    THEN term.oscCalls = Append(prev.all.oscCalls, <<lastIn.n, OSCData[lastIn.m]>>)
    ELSE lastIn.n = 0 => term.Title = OSCData[lastIn.m]

\* the last read called one APC handler, if a registered prefix matches
APCHandled ==
    MatchingPrefixes(prev.all, APCPayloads[lastIn.n]) # {} =>
        Len(term.apcCalls) = Len(prev.all.apcCalls) + 1

\* the last read handed the plain payload X of a passthrough to the grid
DCSHandled ==
    (lastIn.m = 1 /\ prev.all = NewTerminal(term.Rows, term.Columns)) =>
        Runes(term, 0) = <<88>>

\* C22: an OSC, an APC and a DCS string are each ended by BEL as well as by
\* ESC \: on either the handler of the string is called with the payload
\* collected, and the parser is back in the ground state.
C22_StringTerminators ==
    /\ lastIn.op = "OSC" => (OSCHandled /\ term.state = GroundState)
    /\ lastIn.op \in {"APC", "APC-BEL"} => (APCHandled /\ term.state = GroundState)
    /\ lastIn.op \in {"DCS", "DCS-BEL"} => (DCSHandled /\ term.state = GroundState)

\* the terminal the last read would have left, had it held the control of
\* C1Controls[k] as ESC and a letter
SevenBit(k) ==
    handleOutput(prev.all, <<asciiEscape, C1Controls[k].esc>> \o C1Controls[k].rest)

\* C23: the 8-bit C1 controls are recognized from the ground state: the byte
\* 0x9B with parameters and a final byte is executed as ESC [ with the same
\* bytes, 0x84, 0x85 and 0x8D act as IND, NEL and RI, and 0x90, 0x9D and 0x9F
\* start a DCS, an OSC and an APC string.
C23_EightBitControls ==
    (lastIn.op = "C1" /\ prev.ground) => term = SevenBit(lastIn.n)

\* the button value of a report: the button index less one, 3 for a legacy
\* release, and each modifier held counted once
ButtonValue(button, mods, release, sgr) ==
    (IF release /\ ~sgr THEN 3 ELSE button - 1)
    + (IF "shift" \in mods THEN 4 ELSE 0)
    + (IF "alt" \in mods THEN 8 ELSE 0)
    + (IF "control" \in mods THEN 16 ELSE 0)

\* the report of an event: ESC [ < b ; col ; row M (m for a release) in the
\* SGR form, ESC [ M and three bytes offset by 32 in the legacy form
MouseReport(button, mods, release, sgr, col, row) ==
    IF sgr
    THEN <<asciiEscape, Ch.lbracket, 60>> \o Itoa(ButtonValue(button, mods, release, sgr))
         \o <<Ch.semi>> \o Itoa(col) \o <<Ch.semi>> \o Itoa(row)
         \o <<IF release THEN 109 ELSE 77>>
    ELSE <<asciiEscape, Ch.lbracket, 77, 32 + ButtonValue(button, mods, release, sgr),
           32 + col, 32 + row>>

\* C24: with mouse tracking on (CSI ? 1000 h), the report of a press or a
\* release, legacy or SGR, carries the button index less one (3 for a legacy
\* release) plus 4 for shift, 8 for alt and 16 for control, each once, and
\* the SGR form is ESC [ < b ; col ; row M for a press and m for a release,
\* with 1-based cell coordinates.
C24_MouseReport ==
    (lastIn.op \in {"press", "release"} /\ prev.all.mouse = "V200") =>
        Reply = MouseReport(lastIn.n, lastIn.mods, lastIn.op = "release",
                            prev.all.mouseSGR, lastIn.col, lastIn.row)

\* what has been sent on a listener's channel: what its owner received and
\* what waits in the buffer
Delivered(l) == l.received \o l.buf

\* C25: when a title set by OSC 0/2 or a resize changes the configuration,
\* every registered listener channel is sent the new Config, whether or not
\* its owner has consumed the earlier ones.
C25_ListenersNotified ==
    (lastIn.op \in {"title", "resize"} /\ Config(term) # Config(prev.all)) =>
        \A i \in DOMAIN prev.all.listeners :
            Delivered(term.listeners[i])
              = Append(Delivered(prev.all.listeners[i]), Config(term))

\* C26: after a resize to a new rows x cols the cursor lies in the new grid,
\* the scroll region lies in it too, and a scrollBottom that was the old last
\* row is the new last row.
C26_ResizeClamps ==
    (lastIn.op \in {"resize", "fixed"}
       /\ <<term.Rows, term.Columns>> # <<prev.all.Rows, prev.all.Columns>>) =>
        /\ term.cursorRow < term.Rows
        /\ term.cursorCol <= term.Columns
        /\ term.scrollTop <= term.scrollBottom
        /\ term.scrollBottom <= term.Rows - 1
        /\ (prev.all.scrollBottom = prev.all.Rows - 1 => term.scrollBottom = term.Rows - 1)

\* C27: the reader runs no interpreter step while Resize has written Rows
\* and Columns and has yet to write scrollBottom.
C27_ResizeSerialized ==
    lastIn.op \in {"text", "LF"} => prev.all.resizeTask.pc # "half"

\* C28: the reader runs handleOutput only while the grid is there: by the
\* time Cleanup has set t.content to nil the reader has seen the cleanup
\* flag and has stopped.
C28_TeardownOrder ==
    lastIn.op = "handle" => ~prev.all.contentNil

\* the indices of the rows either grid holds
RowIndices == 0..(Len(term.content) + Len(prev.all.content))

\* row i lies outside the scroll region the read started with
OutsideRegion(i) == i < prev.scrollTop \/ i > prev.scrollBottom

\* C29: a line feed with the cursor on scrollBottom moves each row of the
\* region up by one, blanks row scrollBottom, and leaves the rows outside
\* the region and the cursor row as they were; on any other row the grid is
\* left as it was and the cursor goes down one row, held at Rows-1.
C29_LineFeedScrollsRegion ==
    lastIn.op = "LF" =>
        IF prev.cursorRow = prev.scrollBottom
        THEN /\ \A i \in RowIndices :
                   /\ (prev.scrollTop <= i /\ i < prev.scrollBottom) =>
                          CellsAt(term, i) = CellsAt(prev.all, i + 1)
                   /\ i = prev.scrollBottom => CellsAt(term, i) = <<>>
                   /\ OutsideRegion(i) => CellsAt(term, i) = CellsAt(prev.all, i)
             /\ term.cursorRow = prev.cursorRow
        ELSE /\ \A i \in RowIndices : CellsAt(term, i) = CellsAt(prev.all, i)
             /\ term.cursorRow = Min(prev.cursorRow + 1, term.Rows - 1)

\* the scroll region the read started with lies in the grid
RegionInGrid ==
    /\ 0 <= prev.scrollTop
    /\ prev.scrollTop <= prev.scrollBottom
    /\ prev.scrollBottom <= prev.all.Rows - 1

\* C30: with the scroll region inside the grid, CSI n S and CSI n T, for
\* every n >= 1 and also for n larger than the height of the region, leave
\* every row outside the scroll region and the cursor position as they were.
C30_ScrollWithinRegion ==
    (lastIn.op \in {"SU", "SD"} /\ RegionInGrid) =>
        /\ \A i \in RowIndices : OutsideRegion(i) => CellsAt(term, i) = CellsAt(prev.all, i)
        /\ term.cursorRow = prev.cursorRow
        /\ term.cursorCol = prev.cursorCol

\* C31: CSI n L with the cursor on row r of the scroll region blanks rows
\* r..min(r+n-1, scrollBottom), moves each row i with r <= i <= scrollBottom-n
\* to row i+n, and leaves the rows above r and below scrollBottom as they
\* were.
C31_InsertLines ==
    (lastIn.op = "IL" /\ RegionInGrid
       /\ prev.scrollTop <= prev.cursorRow /\ prev.cursorRow <= prev.scrollBottom) =>
        \A i \in RowIndices :
            /\ (prev.cursorRow <= i /\ i <= Min(prev.cursorRow + lastIn.n - 1, prev.scrollBottom))
                   => IsBlank(CellsAt(term, i))
            /\ (prev.cursorRow <= i /\ i <= prev.scrollBottom - lastIn.n)
                   => CellsAt(term, i + lastIn.n) = CellsAt(prev.all, i)
            /\ (i < prev.cursorRow \/ i > prev.scrollBottom)
                   => CellsAt(term, i) = CellsAt(prev.all, i)

\* C32: in origin mode, with the scroll region inside the grid, CSI row ; col H
\* and CSI row d put the cursor on row scrollTop + row - 1, held inside
\* [scrollTop, scrollBottom] when the parameter is larger than the height of
\* the region.
C32_OriginModeRow ==
    (lastIn.op \in {"CUP", "VPA"} /\ prev.all.originMode /\ RegionInGrid) =>
        term.cursorRow = Min(prev.scrollTop + lastIn.n - 1, prev.scrollBottom)

\* the cell at column k of row r, or "none" where the row has no cell
CellRead(t, r, k) ==
    IF k < Len(CellsAt(t, r)) THEN CellsAt(t, r)[k + 1] ELSE "none"

\* no SGR attribute is set: a cell without a style reads as the current one
DefaultSGR(t) ==
    /\ t.currentFG = NilColor /\ t.currentBG = NilColor
    /\ ~t.bold /\ ~t.blinking /\ ~t.underlined

\* column k of row r reads as a blank in the current SGR style: a cell that
\* holds a space (or no rune) in that style, or, while no attribute is set,
\* a cell without a style or no cell at all
ReadsErased(t, r, k) ==
    IF k >= Len(CellsAt(t, r)) THEN DefaultSGR(t)
    ELSE /\ CellsAt(t, r)[k + 1].Rune \in {0, Ch.SP}
         /\ \/ CellsAt(t, r)[k + 1].Style = NewTermTextGridStyle(t)
            \/ DefaultSGR(t) /\ CellsAt(t, r)[k + 1].Style = NilStyle

\* C33: CSI 0 K, CSI 1 K and CSI 2 K leave the columns from the cursor to
\* the end of the line, before the cursor, and of the whole line reading as
\* blanks in the current SGR style, wherever the cursor is, and leave the
\* cells on the other side of the cursor as they were.
C33_EraseInLine ==
    lastIn.op = "EL" =>
        \A k \in 0..(term.Columns - 1) :
            /\ (lastIn.n = 0 /\ k >= prev.cursorCol) => ReadsErased(term, prev.cursorRow, k)
            /\ (lastIn.n = 1 /\ k < prev.cursorCol) => ReadsErased(term, prev.cursorRow, k)
            /\ lastIn.n = 2 => ReadsErased(term, prev.cursorRow, k)
            /\ (lastIn.n = 0 /\ k < prev.cursorCol) =>
                   CellRead(term, prev.cursorRow, k) = CellRead(prev.all, prev.cursorRow, k)
            /\ (lastIn.n = 1 /\ k > prev.cursorCol) =>
                   CellRead(term, prev.cursorRow, k) = CellRead(prev.all, prev.cursorRow, k)

\* C34: BS moves the cursor left by one column when cursorCol > 0, leaves it
\* at column 0 otherwise, and never changes the row, also when the cursor's
\* row has no cells.
C34_Backspace ==
    (lastIn.op = "BS" /\ prev.ground) =>
        /\ term.cursorRow = prev.cursorRow
        /\ term.cursorCol = IF prev.cursorCol > 0 THEN prev.cursorCol - 1 ELSE 0

\* C35: leaving the alternate screen puts the cursor back where it was when
\* the alternate screen was entered from the main screen (here with no wrap
\* pending), whatever CSI ? 1048 h or repeated entry was read in between;
\* and CSI ? 47 l or CSI ? 1049 l with no saved screen changes neither the
\* grid nor the cursor.
C35_AltScreenCursor ==
    /\ (lastIn.op = "ALT-USE" /\ prev.ground /\ ~prev.all.hasSavedRows /\ ~prev.wrapPending) =>
           /\ term.cursorRow = prev.cursorRow
           /\ term.cursorCol = prev.cursorCol
    /\ (lastIn.op = "ALT-LEAVE" /\ prev.ground /\ ~prev.all.hasSavedRows) =>
           /\ GridCells(term) = GridCells(prev.all)
           /\ term.cursorRow = prev.cursorRow
           /\ term.cursorCol = prev.cursorCol

\* C36: a printable byte read with no escape pending is printed whatever its
\* offset in the chunk: after a chunk whose other bytes the interpreter skips
\* the terminal is as after a chunk holding the byte alone.
C36_EscapeOnlyAfterESC ==
    (lastIn.op = "LONG" /\ prev.ground) => term = handleOutput(prev.all, <<97>>)

\* the string states the parser is collecting in
Collecting(t) ==
    (IF t.state.osc THEN {"osc"} ELSE {}) \cup (IF t.state.apc THEN {"apc"} ELSE {})
      \cup (IF t.state.dcs THEN {"dcs"} ELSE {})

\* C37: the parser collects at most one kind of string at a time: at most
\* one of the flags osc, apc and dcs is set.
C37_OneCollectingState == Cardinality(Collecting(term)) <= 1

\* no sequence is open: the parser state is the ground state but for the
\* bytes an earlier sequence may have left in state.code
NoSequenceOpen(t) == t.state = [GroundState EXCEPT !.code = t.state.code]

\* C38: the handler of a CSI final byte gets the bytes received after the
\* most recent CSI introducer only: CSI row ; col H read after a CSI that an
\* ESC cut short, or after a C1-introduced CSI, moves the cursor as it does
\* on its own.
C38_ParametersOfThisCSI ==
    /\ (lastIn.op = "CSI-AGAIN" /\ prev.ground) =>
           term = handleOutput(prev.all, CSI2(lastIn.n, lastIn.m, 72))
    /\ (lastIn.op = "CUP" /\ NoSequenceOpen(prev.all)) =>
           term = handleOutput([prev.all EXCEPT !.state.code = <<>>],
                               CSI2(lastIn.n, lastIn.m, 72))

\* C39: a line feed read while a wrap is pending clears the pending wrap,
\* on the row of scrollBottom as on any other row (the scroll region being
\* inside the grid).
C39_LineFeedClearsWrap ==
    (lastIn.op = "LF" /\ prev.ground /\ prev.wrapPending /\ RegionInGrid) => ~term.wrapPending

\* the modes and attributes of a terminal that RIS is to bring back
ModesOf(t) ==
    [wrapAround |-> t.wrapAround, originMode |-> t.originMode,
     applicationCursorKeys |-> t.applicationCursorKeys,
     cursorHidden |-> t.cursorHidden, newLineMode |-> t.newLineMode,
     bracketedPasteMode |-> t.bracketedPasteMode,
     mouseSGR |-> t.mouseSGR, mouse |-> t.mouse,
     g0Charset |-> t.g0Charset, g1Charset |-> t.g1Charset,
     useG1CharSet |-> t.useG1CharSet,
     attributes |-> Attributes(t),
     scrollTop |-> t.scrollTop, scrollBottom |-> t.scrollBottom,
     cursorRow |-> t.cursorRow, cursorCol |-> t.cursorCol,
     alternate |-> t.hasSavedRows]

\* C40: after ESC c every mode and attribute has the value it has in a
\* freshly constructed terminal of the same size, the cursor is at (0,0) and
\* the main screen is active and blank.
C40_FullReset ==
    (lastIn.op = "RIS" /\ prev.ground) =>
        /\ ModesOf(term) = ModesOf(NewTerminal(term.Rows, term.Columns))
        /\ \A i \in 0..(term.Rows - 1) : IsBlank(CellsAt(term, i))

====
